---- MODULE Spec2Model ----
(***************************************************************************)
(* The video ingestion pipeline of the YouTube research tool:              *)
(* pages/add_videos.py (process_video_url and the "Single URL" tab that    *)
(* drives it), the persistence functions of src/database.py over the       *)
(* tables of src/models.py, the metadata call of src/youtube_client.py and *)
(* the unauthenticated caption strategy of src/youtube_utils.py.           *)
(*                                                                         *)
(* Every Streamlit session runs its script in a thread of its own, so the  *)
(* state of a run (the locals of process_video_url) is kept per session.   *)
(***************************************************************************)
EXTENDS Integers, Sequences, FiniteSets, TLC

\* ------------------------------------------------------------------ bounds

\* Browser sessions that can press "Process Video".
NumSessions == 2

\* The largest primary key a table hands out.
MaxId == 2

\* The largest number of URLs pasted into the batch text area.
MaxBatch == 2

\* The largest number of caption tracks a listing holds.
MaxTracks == 3

\* The largest number of remote calls a script issues through one client.
MaxCalls == 3

\* The largest number of cues of a subtitle file.
MaxCues == 2

Sessions == 1..NumSessions

\* ------------------------------------------------------------ Python values

\* Python's None in a text column or a dict entry.
None == "None"

\* Python's None where an integer primary key or a number is expected.
NoRow == 0

\* -------------------------------------------------------------- input URLs

\* Tokens that satisfy ^[a-zA-Z0-9_-]{11}$ (youtube_utils.py:30).
CanonicalIds == {"dQw4w9WgXcQ", "jNQXAC9IVRw"}

\* A token of the identifier alphabet that is too short to be an identifier.
ShortToken == "abc"

\* A token of the identifier alphabet that is longer than an identifier.
LongToken == "dQw4w9WgXcQ12345"

Tokens == CanonicalIds \cup {ShortToken, LongToken}

\* The netloc of a URL: YouTube's two hosts, a host whose name contains
\* 'youtube.com', and a host that has nothing of YouTube.
Hosts == {"www.youtube.com", "youtu.be", "www.notyoutube.com", "invalid.com"}

\* An input string as urlparse sees it. A raw string has no scheme and hence
\* no netloc; a URL has a host and one of the paths /watch (with the v
\* parameter token, or without one), /embed/token, /v/token, /token, /video.
URLs ==
    [shape : {"raw"}, host : {None}, token : Tokens]
        \cup [shape : {"watch", "short", "embed", "v"}, host : Hosts, token : Tokens]
        \cup [shape : {"watch", "video"}, host : Hosts, token : {None}]

\* The strings typed into the "YouTube URL" field of the page: one of each
\* kind that process_video_url tells apart.
SubmittedURLs ==
    {[shape |-> "raw", host |-> None, token |-> "dQw4w9WgXcQ"],
     [shape |-> "short", host |-> "youtu.be", token |-> "dQw4w9WgXcQ"],
     [shape |-> "watch", host |-> "www.youtube.com", token |-> "jNQXAC9IVRw"],
     [shape |-> "watch", host |-> "www.youtube.com", token |-> ShortToken],
     [shape |-> "watch", host |-> "www.youtube.com", token |-> None],
     [shape |-> "video", host |-> "invalid.com", token |-> None]}

\* re.match(r'^[a-zA-Z0-9_-]{11}$', t)
IsVideoIdToken(t) == t \in CanonicalIds

\* 'youtube.com' in parsed.netloc (line 38): a substring test
InYoutubeCom(h) == h \in {"www.youtube.com", "www.notyoutube.com"}

\* 'youtu.be' in parsed.netloc (line 49)
InYoutuBe(h) == h = "youtu.be"

\* group(2) of re.search(r'/(embed|v)/([a-zA-Z0-9_-]{11})', path) for the
\* path /embed/t or /v/t: the first 11 characters of t, when it has that many.
SearchId(t) ==
    CASE t \in CanonicalIds -> t
      [] t = LongToken -> "dQw4w9WgXcQ"
      [] OTHER -> None

extract_video_id(u) ==
    IF u.shape = "raw"
    THEN \* line 30; any other bare token has an empty netloc
         IF IsVideoIdToken(u.token) THEN u.token ELSE None
    ELSE IF InYoutubeCom(u.host) /\ u.shape = "watch"
    THEN \* lines 39-41: the v parameter as it stands, None when absent
         u.token
    ELSE IF InYoutubeCom(u.host) /\ u.shape \in {"embed", "v"}
            /\ SearchId(u.token) # None
    THEN \* lines 44-46
         SearchId(u.token)
    ELSE IF InYoutuBe(u.host) /\ u.shape = "short" /\ IsVideoIdToken(u.token)
    THEN \* lines 49-54
         u.token
    ELSE None

\* ------------------------------------------------------------------- text

\* Text is a sequence of characters; "w" is a word character, the other two
\* are whitespace.
Whitespace == {" ", "\n"}

RECURSIVE JoinSpace(_)
\* ' '.join(parts)
JoinSpace(parts) ==
    IF parts = <<>> THEN <<>>
    ELSE IF Len(parts) = 1 THEN parts[1]
    ELSE parts[1] \o <<" ">> \o JoinSpace(Tail(parts))

RECURSIVE CollapseWhitespace(_)
\* re.sub(r'\s+', ' ', s)
CollapseWhitespace(s) ==
    IF s = <<>> THEN <<>>
    ELSE IF s[1] \in Whitespace
         THEN IF Len(s) > 1 /\ s[2] \in Whitespace
              THEN CollapseWhitespace(Tail(s))
              ELSE <<" ">> \o CollapseWhitespace(Tail(s))
         ELSE <<s[1]>> \o CollapseWhitespace(Tail(s))

RECURSIVE StripLeft(_)
StripLeft(s) ==
    IF s # <<>> /\ s[1] \in Whitespace THEN StripLeft(Tail(s)) ELSE s

RECURSIVE StripRight(_)
StripRight(s) ==
    IF s # <<>> /\ s[Len(s)] \in Whitespace
    THEN StripRight(SubSeq(s, 1, Len(s) - 1)) ELSE s

\* str.strip()
Strip(s) == StripRight(StripLeft(s))

\* len(s.split()): the number of maximal runs of non-whitespace characters
WordCount(s) ==
    Cardinality({i \in 1..Len(s) :
        /\ s[i] \notin Whitespace
        /\ (i = 1 \/ s[i - 1] \in Whitespace)})

\* -------------------------------------------------------------- durations

\* A duration string is a sequence of tokens: a letter, or a run of digits.
DigitRuns == {"1", "2", "10", "45"}

\* int(group) of a run of digits
IntOf(run) ==
    CASE run = "1" -> 1
      [] run = "2" -> 2
      [] run = "10" -> 10
      [] run = "45" -> 45
      [] OTHER -> 0

\* The contentDetails.duration strings: PT with any subset of the hours,
\* minutes and seconds components, e.g. PT1H2M10S, PT45S, PT; and strings
\* that do not start with PT: the empty string, P1DT2H, 1H, T1H.
DurationStrings ==
    {<<"P", "T">> \o h \o m \o s :
        h \in {<<>>, <<"1", "H">>, <<"2", "H">>},
        m \in {<<>>, <<"2", "M">>, <<"45", "M">>},
        s \in {<<>>, <<"10", "S">>, <<"45", "S">>}}
        \cup {<<>>, <<"P", "1", "D", "T", "2", "H">>, <<"1", "H">>,
               <<"T", "1", "H">>}

\* The optional group (?:(\d+)X)? tried at the head of s: the digits it
\* captures (None when the group matches nothing) and the rest of s.
OptionalGroup(s, unit) ==
    IF Len(s) >= 2 /\ s[1] \in DigitRuns /\ s[2] = unit
    THEN [group |-> s[1], rest |-> SubSeq(s, 3, Len(s))]
    ELSE [group |-> None, rest |-> s]

\* parse_iso_duration with line 82 adding the minutes as they are.
parse_iso_duration_MinutesUnscaled(iso_duration) ==
    IF Len(iso_duration) < 2 \/ iso_duration[1] # "P" \/ iso_duration[2] # "T"
    THEN 0
    ELSE LET h == OptionalGroup(SubSeq(iso_duration, 3, Len(iso_duration)), "H")
             m == OptionalGroup(h.rest, "M")
             s == OptionalGroup(m.rest, "S")
         IN  IntOf(h.group) * 3600 + IntOf(m.group) + IntOf(s.group)

\* youtube_utils.parse_iso_duration (lines 72-82): the pattern is matched at
\* the start of the string, its three groups in turn.
parse_iso_duration(iso_duration) ==
    IF Len(iso_duration) < 2 \/ iso_duration[1] # "P" \/ iso_duration[2] # "T"
    THEN 0
    ELSE LET h == OptionalGroup(SubSeq(iso_duration, 3, Len(iso_duration)), "H")
             m == OptionalGroup(h.rest, "M")
             s == OptionalGroup(m.rest, "S")
         IN  IntOf(h.group) * 3600 + IntOf(m.group) * 60 + IntOf(s.group)

\* ---------------------------------------------------------- subtitle files

\* A subtitle file is a sequence of lines, each one ended by a newline; the
\* last one may lack it.
TimingLine == "00:00:01,000 --> 00:00:02,000"

\* What is spoken in a cue: words, or a number.
SpokenLines == {"Hello", "42"}

\* The text of a cue: one or two spoken lines.
CueTexts == [1..1 -> SpokenLines] \cup [1..2 -> SpokenLines]

\* The cues of a downloaded track, and whether the file ends with a newline.
SrtFiles ==
    [cues : UNION {[1..n -> CueTexts] : n \in 1..MaxCues},
     final_newline : BOOLEAN]

\* The sequence number that heads the i-th cue.
SequenceNumber(i) ==
    CASE i = 1 -> "1" [] i = 2 -> "2" [] i = 3 -> "3" [] OTHER -> "4"

RECURSIVE CueLines(_, _)
\* The lines of the cues from the i-th on: number, timing, text, blank line;
\* the last cue has no blank line after it.
CueLines(cues, i) ==
    IF i > Len(cues) THEN <<>>
    ELSE <<SequenceNumber(i), TimingLine>> \o cues[i]
            \o (IF i < Len(cues) THEN <<"">> ELSE <<>>)
            \o CueLines(cues, i + 1)

\* \d+ matches the whole line
IsDigits(line) == line \in {"1", "2", "3", "4", "42"}

RECURSIVE DropLines(_, _, _)
\* re.sub of a pattern that matches one whole line and the newline that ends
\* it (lines 91 and 94): the digits pattern when digits is TRUE, the timing
\* pattern otherwise.
DropLines(lines, final_newline, digits) ==
    IF lines = <<>> THEN <<>>
    ELSE LET line == Head(lines)
             ended == Len(lines) > 1 \/ final_newline
             matches == IF digits THEN IsDigits(line) ELSE line = TimingLine
             rest == DropLines(Tail(lines), final_newline, digits)
         IN  IF matches /\ ended THEN rest ELSE <<line>> \o rest

RECURSIVE CollapseBlankLines(_)
\* re.sub(r'\n{3,}', '\n\n', text): of blank lines in a row one is left
CollapseBlankLines(lines) ==
    IF Len(lines) < 2 THEN lines
    ELSE IF lines[1] = "" /\ lines[2] = "" THEN CollapseBlankLines(Tail(lines))
    ELSE <<lines[1]>> \o CollapseBlankLines(Tail(lines))

RECURSIVE StripBlankLines(_)
\* text.strip(): no blank line at either end
StripBlankLines(lines) ==
    IF lines = <<>> THEN lines
    ELSE IF lines[1] = "" THEN StripBlankLines(Tail(lines))
    ELSE IF lines[Len(lines)] = ""
         THEN StripBlankLines(SubSeq(lines, 1, Len(lines) - 1))
    ELSE lines

\* youtube_utils.srt_to_plain_text (lines 90-99): the lines of its result.
srt_to_plain_text(lines, final_newline) ==
    StripBlankLines(CollapseBlankLines(
        DropLines(DropLines(lines, final_newline, TRUE), final_newline, FALSE)))

\* ----------------------------------------------------- the remote services

\* str(e) of an exception raised by a remote call.
ExceptionMessages == {"Connection error."}

\* What videos().list(...).execute() can do (youtube_client.py:40-44): answer
\* with an item, answer with no item, raise HttpError, raise anything else.
MetadataReplies ==
    {[kind |-> "item", duration |-> <<"P", "T", "1", "H", "2", "M", "10", "S">>,
      message |-> None],
     [kind |-> "no_items", duration |-> <<>>, message |-> None],
     [kind |-> "HttpError", duration |-> <<>>, message |-> None]}
        \cup [kind : {"Exception"}, duration : {<<>>}, message : ExceptionMessages]

\* get_video_metadata with self.quota_used += 50 for line 46.
metadata_quota_ListCost(reply) ==
    IF reply.kind \in {"item", "no_items"} THEN 50 ELSE 0

\* YouTubeClient.get_video_metadata: the units it adds to quota_used.
metadata_quota(reply) ==
    IF reply.kind \in {"item", "no_items"} THEN 1 ELSE 0

\* What captions().list(...).execute() can do (youtube_client.py:95-99):
\* answer with items, raise HttpError, raise anything else.
ListReplies == {"items", "HttpError", "Exception"}

\* What captions().download(...).execute() can do (youtube_client.py:132-138):
\* answer with the content, raise HttpError, raise anything else.
DownloadReplies == {"content", "HttpError", "Exception"}

\* list_captions with self.quota_used = 50 for line 101.
list_captions_quota_Assigned(quota, reply) ==
    IF reply = "items" THEN 50 ELSE quota

\* YouTubeClient.list_captions: quota_used after it (line 101 is reached
\* when execute() returned).
list_captions_quota(quota, reply) ==
    IF reply = "items" THEN quota + 50 ELSE quota

\* YouTubeClient.download_caption: quota_used after it (line 140).
download_caption_quota(quota, reply) ==
    IF reply = "content" THEN quota + 200 ELSE quota

\* Python's None where a dict is expected.
NoMetadata == <<>>

\* YouTubeClient.get_video_metadata: the dict it returns (lines 60-73), of
\* which the model keeps the key 'duration' with the parsed duration of
\* line 58, or None.
get_video_metadata(reply) ==
    IF reply.kind = "item"
    THEN [duration |-> parse_iso_duration(reply.duration)]
    ELSE NoMetadata

\* dict.get(key) of a metadata dict
metadata_get(md, key) == IF key \in DOMAIN md THEN md[key] ELSE NoRow

\* A transcript of the listing: its language code and whether it is generated.
Track(lang, gen) == [language_code |-> lang, is_generated |-> gen]

\* The listings the transcript service answers with, in the order in which
\* list(transcript_list) yields them.
TrackLists ==
    {<<>>,
     <<Track("es", TRUE), Track("en", FALSE)>>,
     <<Track("es", TRUE)>>}

\* The segment texts transcript_data.fetch() answers with.
FetchedEntries ==
    {<< <<"w">>, <<" ", "w", "\n", "\n", "w", " ">> >>}

\* What the transcript service can do: answer with a listing and the segments
\* of the transcript that is picked, or raise.
CaptionReplies ==
    [kind : {"listing"}, tracks : TrackLists, entries : FetchedEntries,
     message : {None}]
        \cup [kind : {"TranscriptsDisabled", "NoTranscriptFound", "VideoUnavailable"},
              tracks : {<<>>}, entries : {<<>>}, message : {None}]
        \cup [kind : {"Exception"}, tracks : {<<>>}, entries : {<<>>},
              message : ExceptionMessages]

\* The result dict of get_video_captions as it is initialised (lines 125-132).
CaptionFailure(err) ==
    [success |-> FALSE, transcript |-> <<>>, has_transcript |-> FALSE,
     language |-> None, is_auto_generated |-> FALSE, word_count |-> 0,
     error |-> err]

\* The transcript picked by lines 139-152: the manually created one of
\* language code 'en', else the generated one of language code 'en'
\* (find_..._transcript(['en']) looks the code up as it is), else the first
\* one available. The listing is not empty.
pick_transcript(tracks) ==
    IF \E i \in 1..Len(tracks) :
            tracks[i].language_code = "en" /\ ~tracks[i].is_generated
    THEN [track |-> Track("en", FALSE), is_auto_generated |-> FALSE]
    ELSE IF \E i \in 1..Len(tracks) :
                tracks[i].language_code = "en" /\ tracks[i].is_generated
         THEN [track |-> Track("en", TRUE), is_auto_generated |-> TRUE]
         ELSE [track |-> tracks[1], is_auto_generated |-> tracks[1].is_generated]

\* caption_error with line 154 left out: an empty listing sets no message.
caption_error_Unset(reply) ==
    CASE reply.kind = "listing" -> None
      [] reply.kind = "TranscriptsDisabled" -> "Transcripts are disabled for this video"
      [] reply.kind = "NoTranscriptFound" -> "No transcript found in any language"
      [] reply.kind = "VideoUnavailable" -> "Video is unavailable"
      [] OTHER -> "Unexpected error: " \o reply.message

\* The message a failed caption fetch reports (lines 154, 172-179).
caption_error(reply) ==
    CASE reply.kind = "listing" -> "No transcripts available"
      [] reply.kind = "TranscriptsDisabled" -> "Transcripts are disabled for this video"
      [] reply.kind = "NoTranscriptFound" -> "No transcript found in any language"
      [] reply.kind = "VideoUnavailable" -> "Video is unavailable"
      [] OTHER -> "Unexpected error: " \o reply.message

\* youtube_utils.get_video_captions
get_video_captions(reply) ==
    IF reply.kind = "listing" /\ reply.tracks # <<>>
    THEN LET picked == pick_transcript(reply.tracks)
             full_transcript == Strip(CollapseWhitespace(JoinSpace(reply.entries)))
         IN  [success |-> TRUE, transcript |-> full_transcript,
              has_transcript |-> TRUE,
              language |-> picked.track.language_code,
              is_auto_generated |-> picked.is_auto_generated,
              word_count |-> WordCount(full_transcript),
              error |-> None]
    ELSE CaptionFailure(caption_error(reply))

\* The result dict before get_video_captions was called.
NoCaptionResult == CaptionFailure(None)

\* Every listing of the transcript service of up to MaxTracks transcripts, no
\* transcript twice.
AllTrackLists ==
    {s \in UNION {[1..n -> [language_code : {"en", "en-GB", "es"},
                             is_generated : BOOLEAN]] :
                    n \in 0..MaxTracks} :
        \A i, j \in 1..Len(s) : s[i] = s[j] => i = j}

\* The transcript service answering with any of these listings.
ListingReplies ==
    [kind : {"listing"}, tracks : AllTrackLists, entries : FetchedEntries,
     message : {None}]

\* A dict of the list that YouTubeClient.list_captions returns
\* (youtube_client.py:107-112), without its name.
Caption(id, language, auto) ==
    [id |-> id, language |-> language, is_auto_generated |-> auto]

CaptionDicts ==
    {Caption("a", "en", FALSE), Caption("b", "en-GB", FALSE),
     Caption("c", "es", FALSE), Caption("d", "en", TRUE),
     Caption("e", "es", TRUE)}

\* The lists list_captions can return: up to MaxTracks tracks, no track twice.
CaptionLists ==
    {s \in UNION {[1..n -> CaptionDicts] : n \in 0..MaxTracks} :
        \A i, j \in 1..Len(s) : s[i] = s[j] => i = j}

\* Python's None where a caption dict is expected.
NoCaption == Caption(None, None, FALSE)

\* caption['language'].startswith('en')
StartsWithEn(language) == language \in {"en", "en-GB"}

IsManual(c) == ~c.is_auto_generated

IsAuto(c) == c.is_auto_generated

\* for caption in tracks: if caption['language'].startswith('en'): return
\* caption -- the first such track, NoCaption when the loop falls through.
FirstEnglish(tracks) ==
    IF \E i \in 1..Len(tracks) : StartsWithEn(tracks[i].language)
    THEN tracks[CHOOSE i \in 1..Len(tracks) :
                    /\ StartsWithEn(tracks[i].language)
                    /\ \A j \in 1..(i - 1) : ~StartsWithEn(tracks[j].language)]
    ELSE NoCaption

\* get_best_caption_track without lines 183-184 (any manual track).
get_best_caption_track_NoAnyManual(captions) ==
    LET manual == SelectSeq(captions, IsManual)
        auto == SelectSeq(captions, IsAuto)
    IN  IF captions = <<>> THEN NoCaption
        ELSE IF FirstEnglish(manual) # NoCaption THEN FirstEnglish(manual)
        ELSE IF FirstEnglish(auto) # NoCaption THEN FirstEnglish(auto)
        ELSE IF auto # <<>> THEN auto[1]
        ELSE NoCaption

\* YouTubeClient.get_best_caption_track on the list that list_captions
\* returned (youtube_client.py:170-195).
get_best_caption_track(captions) ==
    LET manual == SelectSeq(captions, IsManual)
        auto == SelectSeq(captions, IsAuto)
    IN  IF captions = <<>> THEN NoCaption
        ELSE IF FirstEnglish(manual) # NoCaption THEN FirstEnglish(manual)
        ELSE IF manual # <<>> THEN manual[1]
        ELSE IF FirstEnglish(auto) # NoCaption THEN FirstEnglish(auto)
        ELSE IF auto # <<>> THEN auto[1]
        ELSE NoCaption

RECURSIVE JoinLines(_)
\* The text of which these are the lines: a newline between two lines.
JoinLines(lines) ==
    IF lines = <<>> THEN <<>>
    ELSE (IF Head(lines) = "" THEN <<>> ELSE <<Head(lines)>>)
            \o (IF Len(lines) > 1 THEN <<"\n">> ELSE <<>>)
            \o JoinLines(Tail(lines))

\* The track lists and subtitle files of the replies to the workflow of the
\* client: no track, a manual English one, a generated Spanish one; files of
\* one cue.
WorkflowCaptionLists ==
    {<<>>, <<Caption("a", "en", FALSE)>>, <<Caption("e", "es", TRUE)>>}

WorkflowFiles == {f \in SrtFiles : Len(f.cues) = 1 /\ f.final_newline}

\* What the three remote calls of YouTubeClient.get_video_captions answer.
WorkflowReplies ==
    [metadata : MetadataReplies, list : ListReplies,
     captions : WorkflowCaptionLists, download : DownloadReplies,
     file : WorkflowFiles]

\* The result dict of YouTubeClient.get_video_captions when it returns at
\* line 218, 226 or 235.
ClientCaptionFailure(track, err) ==
    [success |-> FALSE, transcript |-> <<>>, has_transcript |-> FALSE,
     language |-> track.language, is_auto_generated |-> track.is_auto_generated,
     word_count |-> 0, error |-> err]

\* The result dict of line 242.
ClientCaptionSuccess(track, text, count) ==
    [success |-> TRUE, transcript |-> text, has_transcript |-> TRUE,
     language |-> track.language, is_auto_generated |-> track.is_auto_generated,
     word_count |-> count, error |-> None]

\* YouTubeClient.get_video_captions without line 238: word_count stays 0.
client_get_video_captions_NoWordCount(r) ==
    LET captions == IF r.list = "items" THEN r.captions ELSE <<>>
        track == get_best_caption_track(captions)
        lines == srt_to_plain_text(CueLines(r.file.cues, 1), r.file.final_newline)
        text == JoinLines(lines)
    IN  IF r.metadata.kind = "Exception" THEN [raised |-> TRUE, value |-> None]
        ELSE IF r.metadata.kind # "item"
        THEN [raised |-> FALSE,
              value |-> ClientCaptionFailure(NoCaption,
                                             "Video not found or inaccessible")]
        ELSE IF r.list = "Exception" THEN [raised |-> TRUE, value |-> None]
        ELSE IF track = NoCaption
        THEN [raised |-> FALSE,
              value |-> ClientCaptionFailure(NoCaption, "No captions available")]
        ELSE IF r.download = "Exception" THEN [raised |-> TRUE, value |-> None]
        ELSE IF r.download = "HttpError" \/ text = <<>>
        THEN [raised |-> FALSE,
              value |-> ClientCaptionFailure(track, "Failed to download caption")]
        ELSE [raised |-> FALSE, value |-> ClientCaptionSuccess(track, text, 0)]

\* YouTubeClient.get_video_captions (youtube_client.py:197-242): the
\* metadata, the best track of the listing, the download of this track.
\* get_video_metadata, list_captions and download_caption catch HttpError
\* only (lines 77, 117, 152): any other exception of a remote call leaves
\* the function.
client_get_video_captions(r) ==
    LET captions == IF r.list = "items" THEN r.captions ELSE <<>>
        track == get_best_caption_track(captions)
        lines == srt_to_plain_text(CueLines(r.file.cues, 1), r.file.final_newline)
        text == JoinLines(lines)
    IN  IF r.metadata.kind = "Exception" THEN [raised |-> TRUE, value |-> None]
        ELSE IF r.metadata.kind # "item"
        THEN [raised |-> FALSE,
              value |-> ClientCaptionFailure(NoCaption,
                                             "Video not found or inaccessible")]
        ELSE IF r.list = "Exception" THEN [raised |-> TRUE, value |-> None]
        ELSE IF track = NoCaption
        THEN [raised |-> FALSE,
              value |-> ClientCaptionFailure(NoCaption, "No captions available")]
        ELSE IF r.download = "Exception" THEN [raised |-> TRUE, value |-> None]
        ELSE IF r.download = "HttpError" \/ text = <<>>
        THEN [raised |-> FALSE,
              value |-> ClientCaptionFailure(track, "Failed to download caption")]
        ELSE [raised |-> FALSE,
              value |-> ClientCaptionSuccess(track, text, WordCount(text))]

\* What client.beta.chat.completions.parse can do (ai_coder.py:64-72): answer
\* with a parsed payload, answer with a refusal, of which message.parsed is
\* None, or raise.
CodingReplies ==
    [kind : {"parsed", "refusal"}, message : {None}]
        \cup [kind : {"Exception"}, message : ExceptionMessages]

\* str(e) of the AttributeError of coding_result.model_dump() when
\* coding_result is None (add_videos.py:104).
NoModelDumpMessage == "'NoneType' object has no attribute 'model_dump'"

\* max_length of code_transcript (ai_coder.py:53).
max_length == 50000

\* The marker "\n\n[TRUNCATED]" of line 56, character by character.
TruncationMarker ==
    <<"\n", "\n", "[", "T", "R", "U", "N", "C", "A", "T", "E", "D", "]">>

\* A transcript of n characters, the last of which differs from the others.
TextOfLength(n) == [i \in 1..n |-> IF i = n THEN "z" ELSE "w"]

\* Transcripts shorter than, as long as, and longer than max_length.
TranscriptTexts ==
    {TextOfLength(n) :
        n \in {0, 3, max_length - 1, max_length, max_length + 1, max_length + 5}}

\* A mutant of submitted_text: the marker is not added.
submitted_text_NoMarker(transcript_text) ==
    IF Len(transcript_text) > max_length
    THEN SubSeq(transcript_text, 1, max_length)
    ELSE transcript_text

\* ai_coder.py:52-56: the transcript text that goes into the user prompt.
submitted_text(transcript_text) ==
    IF Len(transcript_text) > max_length
    THEN SubSeq(transcript_text, 1, max_length) \o TruncationMarker
    ELSE transcript_text

\* The calls of code_transcript: a transcript and what the provider answers.
CodingCalls == [transcript_text : TranscriptTexts, reply : CodingReplies]

\* ai_coder.py:62-89: what code_transcript does with the answer: it returns
\* message.parsed as it is (line 75, 85), or logs the exception and raises it
\* again (lines 87-89).
code_transcript(transcript_text, reply) ==
    [error |-> reply.message,
     submitted |-> submitted_text(transcript_text),
     outcome |-> IF reply.kind = "Exception" THEN "raise" ELSE "return",
     coding_result |-> CASE reply.kind = "parsed" -> "MotifCoding"
                         [] reply.kind = "refusal" -> None
                         [] OTHER -> None]

\* The message of the ValueError of MotifCoder.__init__ (ai_coder.py:31).
NoApiKeyMessage == "OpenAI API key not found. Set OPENAI_API_KEY environment variable."

\* str(e) of the IntegrityError of a second row with the same video_id.
UniqueViolationMessage == "UNIQUE constraint failed: videos.video_id"

\* str(e) of an error of the database itself.
StorageErrorMessage == "database is locked"

\* ------------------------------------------------------------- the store

VARIABLES
    videos,          \* the rows of table videos (models.Video)
    transcripts,     \* the rows of table transcripts (models.Transcript)
    motif_codings    \* the rows of table motif_codings (models.MotifCoding)

store == <<videos, transcripts, motif_codings>>

\* The value an INTEGER PRIMARY KEY column of SQLite gets on insert: one more
\* than the largest key of the table.
NextId(rows) ==
    IF rows = {} THEN 1
    ELSE (CHOOSE m \in {r.id : r \in rows} : \A r \in rows : r.id <= m) + 1

\* db.query(Video).filter_by(video_id=video_id): at most one row, video_id
\* being unique.
get_video_by_id(rows, video_id) == {v \in rows : v.video_id = video_id}

\* db.query(Video).get(pk)
get_video_by_pk(rows, pk) == {v \in rows : v.id = pk}

\* The video_data dict of process_video_url (add_videos.py:43-58).
video_data(video_id, metadata) ==
    [video_id |-> video_id,
     duration |-> metadata_get(metadata, "duration_seconds"),
     status |-> "processing",
     has_captions |-> FALSE,
     error_message |-> None]

\* Table videos without the unique constraint of video_id (models.py:27).
violates_unique_Never(rows, data) == FALSE

\* The unique constraint of videos.video_id rejects the insert.
violates_unique(rows, data) == \E v \in rows : v.video_id = data.video_id

\* create_video: the row it inserts.
new_video(rows, data) ==
    [id |-> NextId(rows),
     video_id |-> data.video_id,
     duration |-> data.duration,
     status |-> data.status,
     has_captions |-> data.has_captions,
     error_message |-> data.error_message]

\* create_video: table videos after it.
create_video(rows, data) == rows \cup {new_video(rows, data)}

\* update_video without its filter_by: every row is updated.
update_video_AllRows(rows, video_id, updates) ==
    {[f \in DOMAIN v |-> IF f \in DOMAIN updates THEN updates[f] ELSE v[f]] :
        v \in rows}

\* update_video: table videos after setattr of every key of updates on the
\* row with this video_id (none when there is no such row).
update_video(rows, video_id, updates) ==
    {IF v.video_id = video_id
     THEN [f \in DOMAIN v |-> IF f \in DOMAIN updates THEN updates[f] ELSE v[f]]
     ELSE v : v \in rows}

\* The updates of line 70 without the error message.
no_captions_updates_NoMessage(caption_result) ==
    [status |-> "no_captions"]

\* The updates process_video_url makes when no captions came (line 70).
no_captions_updates(caption_result) ==
    [status |-> "no_captions", error_message |-> caption_result.error]

\* The transcript_data dict of process_video_url (add_videos.py:78-83).
transcript_data(caption_result) ==
    [language |-> caption_result.language,
     is_auto_generated |-> caption_result.is_auto_generated,
     raw_text |-> caption_result.transcript,
     word_count |-> caption_result.word_count]

\* create_transcript: the row it inserts.
new_transcript(rows, video_pk, data) ==
    [id |-> NextId(rows),
     video_id |-> video_pk,
     language |-> data.language,
     is_auto_generated |-> data.is_auto_generated,
     raw_text |-> data.raw_text,
     word_count |-> data.word_count]

\* create_transcript without db.add(transcript).
create_transcript_NotAdded(rows, video_pk, data) == rows

\* create_transcript writing the language of the new row into every row.
create_transcript_Overwrite(rows, video_pk, data) ==
    {[t EXCEPT !.language = data.language] : t \in rows}
        \cup {new_transcript(rows, video_pk, data)}

\* create_transcript: table transcripts after it.
create_transcript(rows, video_pk, data) ==
    rows \cup {new_transcript(rows, video_pk, data)}

\* Lines 146-149 without line 148: the status is set, has_captions is not.
mark_completed_StatusOnly(rows, video_pk) ==
    {IF v.id = video_pk THEN [v EXCEPT !.status = "completed"] ELSE v : v \in rows}

\* create_transcript: table videos after it (lines 146-149).
mark_completed(rows, video_pk) ==
    {IF v.id = video_pk
     THEN [v EXCEPT !.has_captions = TRUE, !.status = "completed"]
     ELSE v : v \in rows}

\* create_motif_coding without transcript_id=transcript_pk.
new_motif_coding_NoTranscript(rows, video_pk, transcript_pk) ==
    [id |-> NextId(rows), video_id |-> video_pk, transcript_id |-> NoRow]

\* create_motif_coding: the row it inserts.
new_motif_coding(rows, video_pk, transcript_pk) ==
    [id |-> NextId(rows), video_id |-> video_pk, transcript_id |-> transcript_pk]

\* create_motif_coding: table motif_codings after it.
create_motif_coding(rows, video_pk, transcript_pk) ==
    rows \cup {new_motif_coding(rows, video_pk, transcript_pk)}

\* delete_video without db.delete(video) of line 128.
delete_video_videos_Kept(rows, video_id) == rows

\* delete_video: the tables after db.delete(video), which cascades to the
\* transcripts and motif_codings of the video (models.py:56-57); a motif
\* coding of another video that refers to a deleted transcript loses the
\* reference.

delete_video_videos(rows, video_id) == {v \in rows : v.video_id # video_id}

\* delete_video without the cascade of Video.transcripts.
delete_video_transcripts_NoCascade(rows, pks) == rows

delete_video_transcripts(rows, pks) == {t \in rows : t.video_id \notin pks}

\* delete_video without the cascade of Video.motif_codings.
delete_video_motif_codings_NoCascade(rows, pks, transcript_pks) == rows

delete_video_motif_codings(rows, pks, transcript_pks) ==
    {IF m.transcript_id \in transcript_pks
     THEN [m EXCEPT !.transcript_id = NoRow] ELSE m :
        m \in {x \in rows : x.video_id \notin pks}}

\* ------------------------------------------------- process_video_url runs

VARIABLES
    pc,              \* where the script of each session stands
    video_id,        \* its local video_id
    metadata,        \* its local metadata
    video,           \* the primary key of its local video (a detached row)
    caption_result,  \* its local caption_result
    transcript,      \* the primary key of its local transcript
    result,          \* the dict it returned
    terminal,        \* the return statement it left through
    quota_used,      \* YouTubeClient.quota_used of the session's client
    calls,           \* the remote calls the run has issued, in order
    urls,            \* the list urls of the "Batch Upload" tab
    results,         \* its list results
    call             \* the last call of a function of youtube_utils.py

\* The lists of the batch loop (add_videos.py:214, 227).
batch == <<urls, results>>

locals == <<video_id, metadata, video, caption_result, transcript,
            result, terminal, quota_used, calls, urls, results, call>>

vars == <<videos, transcripts, motif_codings, pc, video_id, metadata,
          video, caption_result, transcript, result, terminal, quota_used, calls,
          urls, results, call>>

\* The dicts process_video_url returns; an absent key reads as None or False.
Outcome(success, error, video_created, vid, has_cost) ==
    [success |-> success, error |-> error, video_created |-> video_created,
     video_id |-> vid, has_cost |-> has_cost]

NoResult == Outcome(FALSE, None, FALSE, None, FALSE)

\* return {"success": False, "error": ...} (lines 27, 34, 40, 123)
Failure(error) == Outcome(FALSE, error, FALSE, None, FALSE)

\* The return of lines 71-75.
CaptionsUnavailable(cr) ==
    Outcome(FALSE, "No captions available: " \o cr.error, TRUE, None, FALSE)

\* The return of lines 115-120.
Success(vid) == Outcome(TRUE, None, FALSE, vid, TRUE)

\* What the "Single URL" tab shows for a result (add_videos.py:185-196).
rendered(r) ==
    IF r.success THEN "success"
    ELSE IF r.video_created THEN "warning" ELSE "error"

\* No function was called yet.
NoCall == [fn |-> None, arg |-> None, ret |-> None]

Init ==
    /\ videos = {}
    /\ transcripts = {}
    /\ motif_codings = {}
    /\ pc = [p \in Sessions |-> "idle"]
    /\ video_id = [p \in Sessions |-> None]
    /\ metadata = [p \in Sessions |-> NoMetadata]
    /\ video = [p \in Sessions |-> NoRow]
    /\ caption_result = [p \in Sessions |-> NoCaptionResult]
    /\ transcript = [p \in Sessions |-> NoRow]
    /\ result = [p \in Sessions |-> NoResult]
    /\ terminal = [p \in Sessions |-> "none"]
    /\ quota_used = [p \in Sessions |-> 0]
    /\ calls = [p \in Sessions |-> <<>>]
    /\ urls = [p \in Sessions |-> <<>>]
    /\ results = [p \in Sessions |-> <<>>]
    /\ call = NoCall

\* process_video_url returns r through the return statement named how.
Return(p, r, how) ==
    /\ pc' = [pc EXCEPT ![p] = "ret"]
    /\ result' = [result EXCEPT ![p] = r]
    /\ terminal' = [terminal EXCEPT ![p] = how]

Goto(p, label) ==
    /\ pc' = [pc EXCEPT ![p] = label]
    /\ UNCHANGED <<result, terminal>>

\* The "Process Video" button (add_videos.py:170-183) and lines 25-27 of
\* process_video_url: a client is built, process_video_url is entered and the
\* identifier is extracted from the URL. Runs do not overlap.
ProcessButton(p, u) ==
    /\ \A q \in Sessions : pc[q] = "idle"
    /\ NextId(videos) <= MaxId
    /\ NextId(transcripts) <= MaxId
    /\ NextId(motif_codings) <= MaxId
    /\ quota_used' = [quota_used EXCEPT ![p] = 0]
    /\ LET id == extract_video_id(u) IN
        IF id = None \/ id = ""
        THEN /\ Return(p, Failure("Invalid YouTube URL"), "invalid")
             /\ UNCHANGED video_id
        ELSE /\ video_id' = [video_id EXCEPT ![p] = id]
             /\ Goto(p, "check")
    /\ UNCHANGED <<store, metadata, video, caption_result, transcript, calls>>
    /\ UNCHANGED <<batch, call>>

\* The "Process Video" button of a session while the script run of another
\* session is inside process_video_url for the same identifier: every
\* browser session has a script thread of its own. Two runs overlap, of any
\* two sessions.
ProcessButtonOverlapping(p, u) ==
    /\ pc[p] = "idle"
    /\ \E q \in Sessions :
            /\ pc[q] \notin {"idle", "ret"}
            /\ video_id[q] = extract_video_id(u)
            /\ \A r \in Sessions \ {p, q} : pc[r] = "idle"
    /\ NextId(videos) <= MaxId
    /\ NextId(transcripts) <= MaxId
    /\ NextId(motif_codings) <= MaxId
    /\ quota_used' = [quota_used EXCEPT ![p] = 0]
    /\ LET id == extract_video_id(u) IN
        IF id = None \/ id = ""
        THEN /\ Return(p, Failure("Invalid YouTube URL"), "invalid")
             /\ UNCHANGED video_id
        ELSE /\ video_id' = [video_id EXCEPT ![p] = id]
             /\ Goto(p, "check")
    /\ UNCHANGED <<store, metadata, video, caption_result, transcript, calls>>
    /\ UNCHANGED <<batch, call>>

\* The "Process Video" button of a session while the script run of another
\* session waits for the captions of a different video (add_videos.py:65),
\* whose row has been deleted from the library in the meantime.
ProcessButtonShared(p, u) ==
    /\ pc[p] = "idle"
    /\ \E q \in Sessions :
            /\ pc[q] = "captions"
            /\ get_video_by_pk(videos, video[q]) = {}
            /\ video_id[q] # extract_video_id(u)
            /\ \A r \in Sessions \ {p, q} : pc[r] = "idle"
    /\ NextId(videos) <= MaxId
    /\ NextId(transcripts) <= MaxId
    /\ NextId(motif_codings) <= MaxId
    /\ quota_used' = [quota_used EXCEPT ![p] = 0]
    /\ LET id == extract_video_id(u) IN
        IF id = None \/ id = ""
        THEN /\ Return(p, Failure("Invalid YouTube URL"), "invalid")
             /\ UNCHANGED video_id
        ELSE /\ video_id' = [video_id EXCEPT ![p] = id]
             /\ Goto(p, "check")
    /\ UNCHANGED <<store, metadata, video, caption_result, transcript, calls>>
    /\ UNCHANGED <<batch, call>>

\* process_video_url without lines 32-34.
CheckExisting_Skipped(p) ==
    /\ pc[p] = "check"
    /\ Goto(p, "metadata")
    /\ UNCHANGED <<store, video_id, metadata, video, caption_result,
                   transcript, quota_used, calls>>
    /\ UNCHANGED <<batch, call>>

\* process_video_url with lines 32-34 moved below the metadata fetch.
CheckExisting_AfterFetch(p) ==
    /\ pc[p] = "check"
    /\ IF get_video_by_id(videos, video_id[p]) # {}
       THEN /\ calls' = [calls EXCEPT ![p] = Append(@, "metadata")]
            /\ quota_used' = [quota_used EXCEPT ![p] = @ + 1]
            /\ Return(p, Failure("Video already in database"), "exists")
       ELSE /\ Goto(p, "metadata")
            /\ UNCHANGED <<calls, quota_used>>
    /\ UNCHANGED <<store, video_id, metadata, video, caption_result, transcript>>
    /\ UNCHANGED <<batch, call>>

\* add_videos.py:32-34
CheckExisting(p) ==
    /\ pc[p] = "check"
    /\ IF get_video_by_id(videos, video_id[p]) # {}
       THEN Return(p, Failure("Video already in database"), "exists")
       ELSE Goto(p, "metadata")
    /\ UNCHANGED <<store, video_id, metadata, video, caption_result,
                   transcript, quota_used, calls>>
    /\ UNCHANGED <<batch, call>>

\* process_video_url creating the record before it looks at the metadata.
FetchMetadata_RecordFirst(p) ==
    /\ pc[p] = "metadata"
    /\ \E reply \in MetadataReplies :
        /\ calls' = [calls EXCEPT ![p] = Append(@, "metadata")]
        /\ quota_used' = [quota_used EXCEPT ![p] = @ + metadata_quota(reply)]
        /\ videos' = create_video(videos, video_data(video_id[p], get_video_metadata(reply)))
        /\ IF reply.kind = "Exception"
           THEN /\ Return(p, Failure(reply.message), "raised:metadata")
                /\ UNCHANGED metadata
           ELSE IF DOMAIN get_video_metadata(reply) = {}
           THEN /\ Return(p, Failure("Failed to fetch metadata"), "metadata_failed")
                /\ UNCHANGED metadata
           ELSE /\ metadata' = [metadata EXCEPT ![p] = get_video_metadata(reply)]
                /\ Goto(p, "captions")
    /\ UNCHANGED <<transcripts, motif_codings, video_id, video, caption_result,
                   transcript>>
    /\ UNCHANGED <<batch, call>>

\* add_videos.py:38-40
FetchMetadata(p) ==
    /\ pc[p] = "metadata"
    /\ \E reply \in MetadataReplies :
        /\ calls' = [calls EXCEPT ![p] = Append(@, "metadata")]
        /\ quota_used' = [quota_used EXCEPT ![p] = @ + metadata_quota(reply)]
        /\ IF reply.kind = "Exception"
           THEN /\ Return(p, Failure(reply.message), "raised:metadata")
                /\ UNCHANGED metadata
           ELSE IF DOMAIN get_video_metadata(reply) = {}
           THEN /\ Return(p, Failure("Failed to fetch metadata"), "metadata_failed")
                /\ UNCHANGED metadata
           ELSE /\ metadata' = [metadata EXCEPT ![p] = get_video_metadata(reply)]
                /\ Goto(p, "create")
    /\ UNCHANGED <<store, video_id, video, caption_result, transcript>>
    /\ UNCHANGED <<batch, call>>

\* add_videos.py:43-61
CreateVideo(p) ==
    /\ pc[p] = "create"
    /\ LET data == video_data(video_id[p], metadata[p]) IN
        IF violates_unique(videos, data)
        THEN /\ Return(p, Failure(UniqueViolationMessage), "raised:create")
             /\ UNCHANGED <<videos, video>>
        ELSE /\ videos' = create_video(videos, data)
             /\ video' = [video EXCEPT ![p] = new_video(videos, data).id]
             /\ Goto(p, "captions")
    /\ UNCHANGED <<transcripts, motif_codings, video_id, metadata,
                   caption_result, transcript, quota_used, calls>>
    /\ UNCHANGED <<batch, call>>

\* add_videos.py:65
FetchCaptions(p) ==
    /\ pc[p] = "captions"
    /\ \E reply \in CaptionReplies :
        caption_result' = [caption_result EXCEPT ![p] = get_video_captions(reply)]
    /\ calls' = [calls EXCEPT ![p] = Append(@, "captions")]
    /\ Goto(p, "store")
    /\ UNCHANGED <<store, video_id, metadata, video, transcript, quota_used>>
    /\ UNCHANGED <<batch, call>>

\* add_videos.py:67-86
StoreCaptions(p) ==
    /\ pc[p] = "store"
    /\ IF ~caption_result[p].success
       THEN /\ videos' = update_video(videos, video_id[p],
                                      no_captions_updates(caption_result[p]))
            /\ Return(p, CaptionsUnavailable(caption_result[p]), "caption_failed")
            /\ UNCHANGED <<transcripts, transcript>>
       ELSE LET data == transcript_data(caption_result[p]) IN
            /\ transcripts' = create_transcript(transcripts, video[p], data)
            /\ videos' = mark_completed(videos, video[p])
            /\ transcript' = [transcript EXCEPT ![p] =
                                 new_transcript(transcripts, video[p], data).id]
            /\ Goto(p, "coding")
    /\ UNCHANGED <<motif_codings, video_id, metadata, video,
                   caption_result, quota_used, calls>>
    /\ UNCHANGED <<batch, call>>

\* process_video_url calling code_transcript again when it raised.
RunCoding_Retry(p) ==
    /\ pc[p] = "coding"
    /\ \E reply \in CodingReplies :
            /\ calls' = [calls EXCEPT ![p] = Append(@, "extraction")]
            /\ IF reply.kind = "parsed" THEN Goto(p, "save") ELSE Goto(p, "coding")
    /\ UNCHANGED <<store, video_id, metadata, video, caption_result,
                   transcript, quota_used>>
    /\ UNCHANGED <<batch, call>>

\* add_videos.py:90-99
RunCoding(p) ==
    /\ pc[p] = "coding"
    /\ \/ /\ Return(p, Failure(NoApiKeyMessage), "raised:coding")
          /\ UNCHANGED calls
       \/ \E reply \in CodingReplies :
            /\ calls' = [calls EXCEPT ![p] = Append(@, "extraction")]
            /\ CASE reply.kind = "Exception" ->
                        Return(p, Failure(reply.message), "raised:coding")
                 [] reply.kind = "refusal" ->
                        \* None is returned and line 104 raises
                        Return(p, Failure(NoModelDumpMessage), "raised:coding")
                 [] OTHER -> Goto(p, "save")
    /\ UNCHANGED <<store, video_id, metadata, video, caption_result,
                   transcript, quota_used>>
    /\ UNCHANGED <<batch, call>>

\* add_videos.py:102-120
SaveCoding(p) ==
    /\ pc[p] = "save"
    /\ motif_codings' = create_motif_coding(motif_codings, video[p], transcript[p])
    /\ Return(p, Success(video_id[p]), "success")
    /\ UNCHANGED <<videos, transcripts, video_id, metadata, video,
                   caption_result, transcript, quota_used, calls>>
    /\ UNCHANGED <<batch, call>>

\* add_videos.py:185-196: the result is shown and the script run ends.
Render(p) ==
    /\ pc[p] = "ret"
    /\ pc' = [pc EXCEPT ![p] = "idle"]
    /\ video_id' = [video_id EXCEPT ![p] = None]
    /\ metadata' = [metadata EXCEPT ![p] = NoMetadata]
    /\ video' = [video EXCEPT ![p] = NoRow]
    /\ caption_result' = [caption_result EXCEPT ![p] = NoCaptionResult]
    /\ transcript' = [transcript EXCEPT ![p] = NoRow]
    /\ result' = [result EXCEPT ![p] = NoResult]
    /\ terminal' = [terminal EXCEPT ![p] = "none"]
    /\ quota_used' = [quota_used EXCEPT ![p] = 0]
    /\ calls' = [calls EXCEPT ![p] = <<>>]
    /\ UNCHANGED store
    /\ UNCHANGED <<batch, call>>

\* The delete button of the video library (video_library.py:188) calling
\* database.delete_video, between runs.
DeleteVideo(id) ==
    /\ \A q \in Sessions : pc[q] = "idle"
    /\ LET pks == {v.id : v \in get_video_by_id(videos, id)}
           transcript_pks == {t.id : t \in {x \in transcripts : x.video_id \in pks}}
       IN  /\ pks # {}
           /\ videos' = delete_video_videos(videos, id)
           /\ transcripts' = delete_video_transcripts(transcripts, pks)
           /\ motif_codings' =
                delete_video_motif_codings(motif_codings, pks, transcript_pks)
    /\ UNCHANGED <<pc, locals>>

\* A statement of the database fails inside get_db (database.py:47-56): the
\* session is rolled back and the exception reaches the handler of
\* process_video_url (add_videos.py:122-123).
StorageFault(p) ==
    /\ pc[p] \in {"check", "create", "store", "save"}
    /\ Return(p, Failure(StorageErrorMessage), "raised:" \o pc[p])
    /\ UNCHANGED <<store, video_id, metadata, video, caption_result,
                   transcript, quota_used, calls>>
    /\ UNCHANGED <<batch, call>>

\* The transcript_data dict of a script that calls create_transcript itself:
\* test_phase2.py:70-75 writes the literal 780 next to a text of 50 words.
\* (test_phase3.py:108-113 and populate_demo_data.py:140-145 compute
\* len(sample_transcript.split()) as the pipeline does.)
ScriptTranscriptData ==
    {[language |-> "en", is_auto_generated |-> TRUE,
      raw_text |-> <<"w", " ", "w">>, word_count |-> 780]}

\* database.create_transcript called by a script, between runs.
CreateTranscriptCall(video_pk, data) ==
    /\ \A q \in Sessions : pc[q] = "idle"
    /\ NextId(transcripts) <= MaxId
    /\ transcripts' = create_transcript(transcripts, video_pk, data)
    /\ videos' = mark_completed(videos, video_pk)
    /\ UNCHANGED <<motif_codings, pc, locals>>

\* The video_data dict of a script that calls create_video itself
\* (test_phase2.py:45-60), for either identifier.
ScriptVideoData ==
    [video_id : CanonicalIds, duration : {213}, status : {"processing"},
     has_captions : {FALSE}, error_message : {None}]

\* What a function of database.py that raised has returned: nothing.
Raised == [raised |-> TRUE, value |-> None]

\* What a function of database.py has returned.
Returns(value) == [raised |-> FALSE, value |-> value]

\* st.stop() after st.error(...): the script run ends where it stands.
Stop(p, tab) ==
    /\ \A q \in Sessions : pc[q] = "idle"
    /\ pc' = [pc EXCEPT ![p] = "stopped"]
    /\ terminal' = [terminal EXCEPT ![p] = "stopped:" \o tab]
    /\ UNCHANGED <<store, video_id, metadata, video, caption_result,
                   transcript, result, quota_used, calls, batch, call>>

\* The "Process Video" button when YouTubeAuthManager() or YouTubeClient(...)
\* raises (add_videos.py:175-181): the error is shown and the run is stopped
\* before process_video_url is called.
ProcessButtonNoClient(p, u) == Stop(p, "single")

\* The "Process Batch" button when the client cannot be built
\* (add_videos.py:218-224): the run is stopped before the loop.
BatchButtonNoClient(p, us) == Len(us) > 0 /\ Stop(p, "batch")

\* The next script run of a session whose run was stopped.
Rerun(p) ==
    /\ pc[p] = "stopped"
    /\ pc' = [pc EXCEPT ![p] = "idle"]
    /\ terminal' = [terminal EXCEPT ![p] = "none"]
    /\ UNCHANGED <<store, video_id, metadata, video, caption_result,
                   transcript, result, quota_used, calls, batch, call>>

\* A script run in another process calls create_video (test_phase2.py:62) at
\* any time, also while a run of the page is under way. (For a stored
\* video_id the script gets the IntegrityError and the store stays as it is.)
ScriptCreateVideo(data) ==
    /\ NextId(videos) <= MaxId
    /\ ~violates_unique(videos, data)
    /\ videos' = create_video(videos, data)
    /\ UNCHANGED <<transcripts, motif_codings, pc, locals>>

\* A function of database.py is called and returns or raises; no run of the
\* page is under way.
DatabaseCall(fn, arg, ret) ==
    /\ call' = [fn |-> fn, arg |-> arg, ret |-> ret]
    /\ UNCHANGED <<pc, video_id, metadata, video, caption_result, transcript,
                   result, terminal, quota_used, calls, batch>>

\* database.create_video (lines 63-74): the flush of db.commit() raises
\* IntegrityError when the video_id is stored already, and get_db rolls back.
CallCreateVideo(data) ==
    /\ NextId(videos) <= MaxId
    /\ IF violates_unique(videos, data)
       THEN /\ DatabaseCall("create_video", data.video_id, Raised)
            /\ UNCHANGED store
       ELSE /\ videos' = create_video(videos, data)
            /\ DatabaseCall("create_video", data.video_id,
                            Returns(new_video(videos, data).id))
            /\ UNCHANGED <<transcripts, motif_codings>>

\* Where a statement of create_transcript can fail: nowhere, up to and in
\* db.commit() (lines 142-151), or after it in db.refresh(transcript) and the
\* attribute loads (lines 152-154).
TranscriptFaults == {None, "before commit", "after commit"}

\* database.create_transcript (lines 139-157) for a stored video. A failure
\* up to the commit is rolled back by get_db (lines 49-52); db.commit() of
\* line 151 makes the row and the status change durable, so that a failure
\* after it leaves them stored although the call raises.
CallCreateTranscript(video_pk, data, fault) ==
    /\ NextId(transcripts) <= MaxId
    /\ get_video_by_pk(videos, video_pk) # {}
    /\ IF fault = "before commit"
       THEN UNCHANGED <<videos, transcripts>>
       ELSE /\ transcripts' = create_transcript(transcripts, video_pk, data)
            /\ videos' = mark_completed(videos, video_pk)
    /\ DatabaseCall("create_transcript", video_pk,
                    IF fault = None
                    THEN Returns(new_transcript(transcripts, video_pk, data).id)
                    ELSE Raised)
    /\ UNCHANGED motif_codings

\* database.create_motif_coding (lines 173-188) as its callers call it: for
\* a video and a transcript of this video.
CallCreateMotifCoding(video_pk, transcript_pk) ==
    /\ NextId(motif_codings) <= MaxId
    /\ \E t \in transcripts : t.id = transcript_pk /\ t.video_id = video_pk
    /\ motif_codings' = create_motif_coding(motif_codings, video_pk, transcript_pk)
    /\ DatabaseCall("create_motif_coding", video_pk,
                    Returns(new_motif_coding(motif_codings, video_pk,
                                             transcript_pk).id))
    /\ UNCHANGED <<videos, transcripts>>

\* database.delete_video (lines 123-132)
CallDeleteVideo(id) ==
    LET pks == {v.id : v \in get_video_by_id(videos, id)}
        transcript_pks == {t.id : t \in {x \in transcripts : x.video_id \in pks}}
    IN  IF pks # {}
        THEN /\ videos' = delete_video_videos(videos, id)
             /\ transcripts' = delete_video_transcripts(transcripts, pks)
             /\ motif_codings' =
                    delete_video_motif_codings(motif_codings, pks, transcript_pks)
             /\ DatabaseCall("delete_video", id, Returns(TRUE))
        ELSE /\ DatabaseCall("delete_video", id, Returns(FALSE))
             /\ UNCHANGED store

\* The URLs pasted into the batch text area, one per line.
BatchURLs ==
    {[shape |-> "raw", host |-> None, token |-> "dQw4w9WgXcQ"],
     [shape |-> "watch", host |-> "www.youtube.com", token |-> "jNQXAC9IVRw"],
     [shape |-> "video", host |-> "invalid.com", token |-> None]}

\* The list urls of line 214; it is empty when every line is blank.
Batches == UNION {[1..n -> BatchURLs] : n \in 0..MaxBatch}

\* The "Process Batch" button (add_videos.py:213-229): the list of URLs is
\* built, one client is created for the whole batch and results is empty.
BatchButton(p, us) ==
    /\ \A q \in Sessions : pc[q] = "idle"
    /\ NextId(videos) + Len(us) <= MaxId + 1
    /\ NextId(transcripts) + Len(us) <= MaxId + 1
    /\ NextId(motif_codings) + Len(us) <= MaxId + 1
    /\ urls' = [urls EXCEPT ![p] = us]
    /\ results' = [results EXCEPT ![p] = <<>>]
    /\ quota_used' = [quota_used EXCEPT ![p] = 0]
    /\ pc' = [pc EXCEPT ![p] = "loop"]
    /\ UNCHANGED <<store, video_id, metadata, video, caption_result,
                   transcript, result, terminal, calls, call>>

\* The head of the loop (add_videos.py:231-235) and lines 25-27 of
\* process_video_url for the next URL of the list.
BatchNext(p) ==
    /\ pc[p] = "loop"
    /\ Len(results[p]) < Len(urls[p])
    /\ LET id == extract_video_id(urls[p][Len(results[p]) + 1]) IN
        IF id = None \/ id = ""
        THEN /\ Return(p, Failure("Invalid YouTube URL"), "invalid")
             /\ UNCHANGED video_id
        ELSE /\ video_id' = [video_id EXCEPT ![p] = id]
             /\ Goto(p, "check")
    /\ UNCHANGED <<store, metadata, video, caption_result, transcript,
                   quota_used, calls, batch, call>>

\* The batch loop giving up at the first outcome that is no success.
BatchAppend_StopOnFailure(p) ==
    /\ pc[p] = "ret"
    /\ results' = [results EXCEPT ![p] = Append(@, result[p])]
    /\ pc' = [pc EXCEPT ![p] = IF result[p].success THEN "loop" ELSE "idle"]
    /\ video_id' = [video_id EXCEPT ![p] = None]
    /\ metadata' = [metadata EXCEPT ![p] = NoMetadata]
    /\ video' = [video EXCEPT ![p] = NoRow]
    /\ caption_result' = [caption_result EXCEPT ![p] = NoCaptionResult]
    /\ transcript' = [transcript EXCEPT ![p] = NoRow]
    /\ result' = [result EXCEPT ![p] = NoResult]
    /\ terminal' = [terminal EXCEPT ![p] = "none"]
    /\ calls' = [calls EXCEPT ![p] = <<>>]
    /\ UNCHANGED <<store, quota_used, urls, call>>

\* add_videos.py:235-238: process_video_url has returned, its result is
\* appended and the loop goes on; the client and its quota_used stay.
BatchAppend(p) ==
    /\ pc[p] = "ret"
    /\ results' = [results EXCEPT ![p] = Append(@, result[p])]
    /\ pc' = [pc EXCEPT ![p] = "loop"]
    /\ video_id' = [video_id EXCEPT ![p] = None]
    /\ metadata' = [metadata EXCEPT ![p] = NoMetadata]
    /\ video' = [video EXCEPT ![p] = NoRow]
    /\ caption_result' = [caption_result EXCEPT ![p] = NoCaptionResult]
    /\ transcript' = [transcript EXCEPT ![p] = NoRow]
    /\ result' = [result EXCEPT ![p] = NoResult]
    /\ terminal' = [terminal EXCEPT ![p] = "none"]
    /\ calls' = [calls EXCEPT ![p] = <<>>]
    /\ UNCHANGED <<store, quota_used, urls, call>>

\* add_videos.py:240-259: the loop is over, the summary and one line per
\* (url, result) pair are shown and the script run ends.
BatchSummary(p) ==
    /\ pc[p] = "loop"
    /\ Len(results[p]) >= Len(urls[p])
    /\ pc' = [pc EXCEPT ![p] = "idle"]
    /\ urls' = [urls EXCEPT ![p] = <<>>]
    /\ results' = [results EXCEPT ![p] = <<>>]
    /\ quota_used' = [quota_used EXCEPT ![p] = 0]
    /\ UNCHANGED <<store, video_id, metadata, video, caption_result,
                   transcript, result, terminal, calls, call>>

\* The steps of process_video_url after the identifier was extracted.
Pipeline(p) ==
    \/ CheckExisting(p)
    \/ FetchMetadata(p)
    \/ CreateVideo(p)
    \/ FetchCaptions(p)
    \/ StoreCaptions(p)
    \/ RunCoding(p)
    \/ SaveCoding(p)
    \/ StorageFault(p)

BatchStep(p) ==
    \/ \E us \in Batches : BatchButton(p, us)
    \/ BatchNext(p)
    \/ Pipeline(p)
    \/ BatchAppend(p)
    \/ BatchSummary(p)

\* A script builds a YouTubeClient (youtube_client.py:25-28), as
\* test_phase1.py and __main__ of youtube_client.py do; one script at a time.
NewClient(p) ==
    /\ \A q \in Sessions : pc[q] = "idle"
    /\ pc' = [pc EXCEPT ![p] = "client"]
    /\ quota_used' = [quota_used EXCEPT ![p] = 0]
    /\ calls' = [calls EXCEPT ![p] = <<>>]
    /\ UNCHANGED <<store, video_id, metadata, video, caption_result,
                   transcript, result, terminal, batch, call>>

\* client.get_video_metadata(video_id) (youtube_client.py:39-82)
ClientGetVideoMetadata(p) ==
    /\ pc[p] = "client"
    /\ Len(calls[p]) < MaxCalls
    /\ \E reply \in MetadataReplies :
            quota_used' = [quota_used EXCEPT ![p] = @ + metadata_quota(reply)]
    /\ calls' = [calls EXCEPT ![p] = Append(@, "metadata")]
    /\ UNCHANGED <<store, pc, video_id, metadata, video, caption_result,
                   transcript, result, terminal, batch, call>>

\* client.list_captions(video_id), also when get_best_caption_track calls
\* it (youtube_client.py:94-120, 168)
ClientListCaptions(p) ==
    /\ pc[p] = "client"
    /\ Len(calls[p]) < MaxCalls
    /\ \E reply \in ListReplies :
            quota_used' = [quota_used EXCEPT ![p] = list_captions_quota(@, reply)]
    /\ calls' = [calls EXCEPT ![p] = Append(@, "captions.list")]
    /\ UNCHANGED <<store, pc, video_id, metadata, video, caption_result,
                   transcript, result, terminal, batch, call>>

\* client.download_caption(caption_id) (youtube_client.py:131-154)
ClientDownloadCaption(p) ==
    /\ pc[p] = "client"
    /\ Len(calls[p]) < MaxCalls
    /\ \E reply \in DownloadReplies :
            quota_used' = [quota_used EXCEPT ![p] = download_caption_quota(@, reply)]
    /\ calls' = [calls EXCEPT ![p] = Append(@, "captions.download")]
    /\ UNCHANGED <<store, pc, video_id, metadata, video, caption_result,
                   transcript, result, terminal, batch, call>>

\* The script ends and its client is gone.
CloseClient(p) ==
    /\ pc[p] = "client"
    /\ pc' = [pc EXCEPT ![p] = "idle"]
    /\ quota_used' = [quota_used EXCEPT ![p] = 0]
    /\ calls' = [calls EXCEPT ![p] = <<>>]
    /\ UNCHANGED <<store, video_id, metadata, video, caption_result,
                   transcript, result, terminal, batch, call>>

\* A function of the utilities is called on its own, as __main__ of
\* youtube_utils.py (lines 184-198) and the test scripts do.
Apply(fn, arg, ret) ==
    /\ call' = [fn |-> fn, arg |-> arg, ret |-> ret]
    /\ UNCHANGED <<store, pc, video_id, metadata, video, caption_result,
                   transcript, result, terminal, quota_used, calls, batch>>

CallExtractVideoId(u) == Apply("extract_video_id", u, extract_video_id(u))

CallParseIsoDuration(iso_duration) ==
    Apply("parse_iso_duration", iso_duration, parse_iso_duration(iso_duration))

CallSrtToPlainText(file) ==
    Apply("srt_to_plain_text", file,
          srt_to_plain_text(CueLines(file.cues, 1), file.final_newline))

CallCodeTranscript(c) ==
    Apply("code_transcript", c, code_transcript(c.transcript_text, c.reply))

CallGetBestCaptionTrack(captions) ==
    Apply("get_best_caption_track", captions, get_best_caption_track(captions))

CallGetVideoCaptions(reply) ==
    Apply("get_video_captions", reply, get_video_captions(reply))

CallClientGetVideoCaptions(r) ==
    Apply("YouTubeClient.get_video_captions", r, client_get_video_captions(r))

Step(p) ==
    \/ \E u \in SubmittedURLs : ProcessButton(p, u)
    \/ CheckExisting(p)
    \/ FetchMetadata(p)
    \/ CreateVideo(p)
    \/ FetchCaptions(p)
    \/ StoreCaptions(p)
    \/ RunCoding(p)
    \/ SaveCoding(p)
    \/ Render(p)

Next ==
    \/ \E p \in Sessions : Step(p)
    \/ \E id \in {v.video_id : v \in videos} : DeleteVideo(id)

\* The application: runs of the pipeline and deletions from the library.
Spec == Init /\ [][Next]_vars

NextFault ==
    \/ Next
    \/ \E p \in Sessions : StorageFault(p)

\* The application over a database whose statements can fail.
SpecFault == Init /\ [][NextFault]_vars

NextGateway ==
    \/ Next
    \/ \E video_pk \in 1..MaxId, data \in ScriptTranscriptData :
            CreateTranscriptCall(video_pk, data)

\* The application and scripts that call create_transcript themselves.
SpecGateway == Init /\ [][NextGateway]_vars

NextDatabase ==
    \/ \E data \in ScriptVideoData : CallCreateVideo(data)
    \/ \E video_pk \in 1..MaxId, data \in ScriptTranscriptData,
          fault \in TranscriptFaults :
            CallCreateTranscript(video_pk, data, fault)
    \/ \E video_pk \in 1..MaxId, transcript_pk \in 1..MaxId :
            CallCreateMotifCoding(video_pk, transcript_pk)
    \/ \E id \in CanonicalIds : CallDeleteVideo(id)

\* The functions of database.py called one after another, as the scripts and
\* the pages call them.
SpecDatabase == Init /\ [][NextDatabase]_vars

NextConcurrent ==
    \/ Next
    \/ \E data \in ScriptVideoData : ScriptCreateVideo(data)

\* The application and a script that creates videos at the same time.
SpecConcurrent == Init /\ [][NextConcurrent]_vars

NextCredentials ==
    \/ Next
    \/ \E p \in Sessions :
        \/ \E u \in SubmittedURLs : ProcessButtonNoClient(p, u)
        \/ \E us \in Batches : BatchButtonNoClient(p, us)
        \/ Rerun(p)

\* The application when the credential provider can fail.
SpecCredentials == Init /\ [][NextCredentials]_vars

NextOverlapping ==
    \/ Next
    \/ \E p \in Sessions, u \in SubmittedURLs : ProcessButtonOverlapping(p, u)

\* The application used from several browser sessions at the same time for
\* the same video.
SpecOverlapping == Init /\ [][NextOverlapping]_vars

NextLibrary ==
    \/ \E p \in Sessions : Step(p)
    \/ /\ \A q \in Sessions : pc[q] = "idle"
       /\ \E id \in CanonicalIds : CallDeleteVideo(id)

\* The application with the return value of delete_video kept: submissions,
\* and deletions from the library (video_library.py:187-192) between them.
SpecLibrary == Init /\ [][NextLibrary]_vars

\* The delete button of the library page (video_library.py:187-188) pressed
\* in another browser session for the video of a run that waits for its
\* captions.
DeleteButtonShared(q) ==
    /\ pc[q] = "captions"
    /\ \A r \in Sessions \ {q} : pc[r] = "idle"
    /\ get_video_by_pk(videos, video[q]) # {}
    /\ CallDeleteVideo(video_id[q])

NextShared ==
    \/ \E p \in Sessions : Step(p)
    \/ \E p \in Sessions, u \in SubmittedURLs : ProcessButtonShared(p, u)
    \/ \E q \in Sessions : DeleteButtonShared(q)

\* The application used from several browser sessions at the same time: a
\* video is deleted while its run goes on, and a run for another video
\* starts.
SpecShared == Init /\ [][NextShared]_vars

NextBatch ==
    \/ \E p \in Sessions : BatchStep(p)
    \/ \E id \in {v.video_id : v \in videos} : DeleteVideo(id)

\* The "Batch Upload" tab over a database whose statements can fail. A script
\* run that has started runs to its end: the remote calls return or raise.
SpecBatch ==
    Init /\ [][NextBatch]_vars
         /\ \A p \in Sessions :
                WF_vars(BatchNext(p) \/ Pipeline(p) \/ BatchAppend(p) \/ BatchSummary(p))

NextClient ==
    \E p \in Sessions :
        \/ NewClient(p)
        \/ ClientGetVideoMetadata(p)
        \/ ClientListCaptions(p)
        \/ ClientDownloadCaption(p)
        \/ CloseClient(p)

\* Scripts that use a YouTubeClient of their own.
SpecClient == Init /\ [][NextClient]_vars

NextCalls ==
    \/ \E u \in URLs : CallExtractVideoId(u)
    \/ \E file \in SrtFiles : CallSrtToPlainText(file)
    \/ \E c \in CodingCalls : CallCodeTranscript(c)
    \/ \E iso_duration \in DurationStrings : CallParseIsoDuration(iso_duration)
    \/ \E captions \in CaptionLists : CallGetBestCaptionTrack(captions)
    \/ \E reply \in ListingReplies : CallGetVideoCaptions(reply)
    \/ \E reply \in CaptionReplies : CallGetVideoCaptions(reply)
    \/ \E r \in WorkflowReplies : CallClientGetVideoCaptions(r)

\* The functions of the utilities and the track selection of the client,
\* applied to every input of the bounded sets.
SpecCalls == Init /\ [][NextCalls]_vars

\* ------------------------------------------------------------ properties

\* The rows of a video, its transcripts and its motif codings, by primary key.
TranscriptsOf(pk) == {t \in transcripts : t.video_id = pk}

MotifCodingsOf(pk) == {m \in motif_codings : m.video_id = pk}

Issued(p, name) == \E i \in 1..Len(calls[p]) : calls[p][i] = name

Returned(p) == pc[p] = "ret"

NonEmpty(text) == text # None /\ text # ""

\* C1: the store never holds two VideoRecords with the same identifier, and
\* a submission whose identifier is already stored creates nothing and
\* returns the failure 'Video already in database'.
UniqueVideoId == \A v, w \in videos : v.video_id = w.video_id => v = w

AlreadyStoredStep ==
    \A p \in Sessions :
        (/\ pc[p] = "check"
         /\ pc'[p] # "check"
         /\ \E v \in videos : v.video_id = video_id[p])
        => /\ store' = store
           /\ pc'[p] = "ret"
           /\ result'[p] = Failure("Video already in database")

C1_Idempotent == []UniqueVideoId /\ [][AlreadyStoredStep]_vars

C1_Witness ==
    \E p \in Sessions :
        /\ Returned(p)
        /\ result[p].error = "Video already in database"
        /\ Cardinality(get_video_by_id(videos, video_id[p])) = 1

\* C2: a run that ends with 'invalid reference' or 'already exists' has
\* issued no remote call, and the quota counter of its client, 0 when the
\* client was built, is still 0.
C2_NoCallBeforeCheck ==
    \A p \in Sessions :
        terminal[p] \in {"invalid", "exists"}
        => calls[p] = <<>> /\ quota_used[p] = 0

C2_Witness ==
    \E p \in Sessions :
        /\ Returned(p)
        /\ terminal[p] = "exists"
        /\ calls[p] = <<>>

\* C3: a run that fails at normalization, at the existence check or at the
\* metadata fetch changes no table: no step up to that return writes to the
\* store, and the run holds no created row.
EarlyFailureStep ==
    \A p \in Sessions :
        /\ (pc[p] \in {"check", "metadata"} /\ pc'[p] # pc[p]) => store' = store
        /\ (/\ pc'[p] = "ret"
            /\ pc[p] # "ret"
            /\ terminal'[p] \in {"invalid", "exists", "metadata_failed", "raised:metadata"})
           => /\ store' = store
              /\ pc[p] \in {"idle", "check", "metadata"}
              /\ video'[p] = NoRow
              /\ transcript'[p] = NoRow

C3_EarlyFailureKeepsStore == [][EarlyFailureStep]_vars

C3_Witness ==
    \E p \in Sessions :
        /\ Returned(p)
        /\ terminal[p] = "metadata_failed"
        /\ video[p] = NoRow
        /\ get_video_by_id(videos, video_id[p]) = {}

\* C4: when the caption fetch failed after the VideoRecord was created, the
\* run has returned the outcome marked video_created, and the record is in
\* status no_captions with a non-empty error message, has_captions false, no
\* transcript and no motif coding.
C4_CaptionFailure ==
    \A p \in Sessions :
        (Returned(p) /\ Issued(p, "captions") /\ ~caption_result[p].success)
        => /\ terminal[p] = "caption_failed"
           /\ result[p].video_created
           /\ ~result[p].success
           /\ \E v \in videos :
                /\ v.id = video[p]
                /\ v.video_id = video_id[p]
                /\ v.status = "no_captions"
                /\ NonEmpty(v.error_message)
                /\ ~v.has_captions
           /\ TranscriptsOf(video[p]) = {}
           /\ MotifCodingsOf(video[p]) = {}

C4_Witness ==
    \E p \in Sessions :
        /\ Returned(p)
        /\ terminal[p] = "caption_failed"
        /\ \E v \in videos : v.id = video[p] /\ v.status = "no_captions"

\* C5: when the extraction failed after the transcript was stored, the
\* VideoRecord is in status completed with has_captions true, its only
\* transcript is the one the run stored, unchanged, and it has no motif
\* coding.
C5_ExtractionFailure ==
    \A p \in Sessions :
        (Returned(p) /\ terminal[p] = "raised:coding")
        => /\ \E v \in videos :
                /\ v.id = video[p]
                /\ v.status = "completed"
                /\ v.has_captions
           /\ TranscriptsOf(video[p]) =
                {[id |-> transcript[p],
                  video_id |-> video[p],
                  language |-> caption_result[p].language,
                  is_auto_generated |-> caption_result[p].is_auto_generated,
                  raw_text |-> caption_result[p].transcript,
                  word_count |-> caption_result[p].word_count]}
           /\ MotifCodingsOf(video[p]) = {}

C5_Witness ==
    \E p \in Sessions :
        /\ Returned(p)
        /\ terminal[p] = "raised:coding"
        /\ Issued(p, "extraction")
        /\ TranscriptsOf(video[p]) # {}

\* The outcomes of the terminal states in which no record was created.
NoRecordOutcomes ==
    {Failure("Invalid YouTube URL"),
     Failure("Video already in database"),
     Failure("Failed to fetch metadata")}
        \cup {Failure(m) : m \in ExceptionMessages}

\* C6: the outcome tells which terminal state was reached; an extraction
\* failure is reported as a partial success in which the record exists (the
\* page does not show it as an error), and differs from every outcome of a
\* terminal state without a record.
C6_OutcomeNamesTerminalState ==
    \A p \in Sessions :
        (Returned(p) /\ terminal[p] = "raised:coding" /\ Issued(p, "extraction"))
        => /\ result[p].video_created
           /\ rendered(result[p]) # "error"
           /\ result[p] \notin NoRecordOutcomes

\* C7: once process_video_url has returned, the VideoRecord it created is not
\* in status processing.
C7_NeverLeftProcessing ==
    \A p \in Sessions :
        (Returned(p) /\ video[p] # NoRow)
        => \A v \in get_video_by_pk(videos, video[p]) :
                v.status \in {"completed", "no_captions"}

\* C8: while the caption fetch is still to be issued the VideoRecord of the
\* run is stored in status processing with has_captions false; a row enters
\* the table in that state; and no step of a run changes the status of a
\* record that is completed or no_captions.
StoredBeforeCaptions ==
    \A p \in Sessions :
        pc[p] = "captions"
        => /\ ~Issued(p, "captions")
           /\ \E v \in videos :
                v.id = video[p] /\ v.status = "processing" /\ ~v.has_captions

StatusIsFinalStep ==
    (pc' # pc)
    => /\ \A v \in videos :
            v.status \in {"completed", "no_captions"}
            => \E w \in videos' :
                    w.id = v.id /\ w.video_id = v.video_id /\ w.status = v.status
       /\ \A w \in videos' :
            (\A v \in videos : v.id # w.id)
            => w.status = "processing" /\ ~w.has_captions

C8_Lifecycle == []StoredBeforeCaptions /\ [][StatusIsFinalStep]_vars

C8_Witness ==
    \E p \in Sessions :
        /\ Returned(p)
        /\ terminal[p] = "caption_failed"
        /\ \E v \in videos :
            v.id # video[p] /\ v.status \in {"completed", "no_captions"}

C10_CaptionsHaveTranscript ==
    \A v \in videos : v.has_captions => TranscriptsOf(v.id) # {}

C10_Witness ==
    \E v \in videos :
        /\ v.has_captions
        /\ Cardinality(TranscriptsOf(v.id)) = 2
        /\ \E w \in videos : w.id # v.id /\ ~w.has_captions

\* C11: every stored TranscriptRecord has word_count equal to the number of
\* whitespace-separated tokens of its raw_text, whoever stored it.
C11_WordCountInvariant ==
    \A t \in transcripts : t.word_count = WordCount(t.raw_text)

\* C12: every VideoRecord has at most one motif coding, after any sequence
\* of submissions (and deletions from the library).
C12_AtMostOneCoding ==
    \A v \in videos : Cardinality(MotifCodingsOf(v.id)) <= 1

C12_Witness ==
    \E p \in Sessions :
        /\ Returned(p)
        /\ terminal[p] = "exists"
        /\ \E v \in get_video_by_id(videos, video_id[p]) :
                Cardinality(MotifCodingsOf(v.id)) = 1

\* The record of the run is completed with captions, has one transcript and
\* exactly one motif coding, which refers to the record and to its
\* transcript.
FullyStored(p) ==
    /\ \E v \in videos :
            /\ v.id = video[p]
            /\ v.video_id = video_id[p]
            /\ v.status = "completed"
            /\ v.has_captions
    /\ Cardinality(TranscriptsOf(video[p])) = 1
    /\ Cardinality(MotifCodingsOf(video[p])) = 1
    /\ \A m \in MotifCodingsOf(video[p]) :
            /\ m.video_id = video[p]
            /\ m.transcript_id \in {t.id : t \in TranscriptsOf(video[p])}

BelongsTo(r, u) ==
    IF extract_video_id(u) = None
    THEN r = Failure("Invalid YouTube URL")
    ELSE /\ r.error # "Invalid YouTube URL"
         /\ r.success => r.video_id = extract_video_id(u)

OutcomePerInput ==
    \A p \in Sessions :
        /\ Len(results[p]) <= Len(urls[p])
        /\ \A i \in 1..Len(results[p]) : BelongsTo(results[p][i], urls[p][i])
        /\ pc[p] \notin {"idle", "loop"} => Len(results[p]) < Len(urls[p])

InOrderStep ==
    \A p \in Sessions :
        \* a video starts when the one before it has returned and is recorded
        /\ (pc[p] = "loop" /\ pc'[p] \notin {"loop", "idle"})
           => LET id == extract_video_id(urls[p][Len(results[p]) + 1]) IN
              /\ results'[p] = results[p]
              /\ IF id = None
                 THEN pc'[p] = "ret" /\ result'[p] = Failure("Invalid YouTube URL")
                 ELSE pc'[p] = "check" /\ video_id'[p] = id
        \* an outcome is recorded when process_video_url has returned it
        /\ (results'[p] # results[p] /\ pc[p] # "idle" /\ pc'[p] # "idle")
           => /\ pc[p] = "ret"
              /\ pc'[p] = "loop"
              /\ results'[p] = Append(results[p], result[p])
        \* the batch ends with one outcome per input
        /\ (pc[p] # "idle" /\ pc'[p] = "idle")
           => pc[p] = "loop" /\ Len(results[p]) = Len(urls[p])
        /\ (pc[p] # "idle" /\ pc'[p] # "idle") => urls'[p] = urls[p]

BatchCompletes ==
    \A p \in Sessions :
        (pc[p] # "idle") ~> (pc[p] = "loop" /\ Len(results[p]) = Len(urls[p]))

Tier(c) ==
    IF ~c.is_auto_generated
    THEN (IF StartsWithEn(c.language) THEN 1 ELSE 2)
    ELSE (IF StartsWithEn(c.language) THEN 3 ELSE 4)

\* C17: get_best_caption_track returns a track of the list whose tier no
\* other track of the list beats, and returns None exactly when the list is
\* empty.
C17_BestTier ==
    call.fn = "get_best_caption_track"
    => /\ (call.ret = NoCaption) <=> (call.arg = <<>>)
       /\ call.arg # <<>>
          => /\ \E i \in 1..Len(call.arg) : call.arg[i] = call.ret
             /\ \A i \in 1..Len(call.arg) : Tier(call.ret) <= Tier(call.arg[i])

C17_Witness ==
    /\ call.fn = "get_best_caption_track"
    /\ Len(call.arg) = 3
    /\ Tier(call.arg[1]) = 3
    /\ Tier(call.arg[2]) = 4
    /\ Tier(call.ret) = 2

\* The permutations of a list.
Reorderings(s) ==
    {[i \in 1..Len(s) |-> s[f[i]]] :
        f \in {g \in [1..Len(s) -> 1..Len(s)] :
                    \A i, j \in 1..Len(s) : g[i] = g[j] => i = j}}

\* C18: get_best_caption_track selects the same track for every permutation
\* of the list.
C18_OrderIndependent ==
    call.fn = "get_best_caption_track"
    => \A q \in Reorderings(call.arg) : get_best_caption_track(q) = call.ret

\* C19: the unauthenticated get_video_captions picks a manually created
\* English transcript if the listing has one, else an auto-generated English
\* one, else the first transcript of the listing, and the is_auto_generated
\* flag it returns is that of the transcript it picked. English is what the
\* client's selection takes for it: a language code that starts with 'en'.
C19_UnauthenticatedPick ==
    (call.fn = "get_video_captions" /\ call.arg.tracks # <<>>)
    => LET tracks == call.arg.tracks
           picked == Track(call.ret.language, call.ret.is_auto_generated)
           manual_en == {i \in 1..Len(tracks) :
                            StartsWithEn(tracks[i].language_code)
                            /\ ~tracks[i].is_generated}
           generated_en == {i \in 1..Len(tracks) :
                               StartsWithEn(tracks[i].language_code)
                               /\ tracks[i].is_generated}
       IN  /\ call.ret.success
           /\ \E i \in 1..Len(tracks) : tracks[i] = picked
           /\ IF manual_en # {}
              THEN \E i \in manual_en : tracks[i] = picked
              ELSE IF generated_en # {}
              THEN \E i \in generated_en : tracks[i] = picked
              ELSE picked = tracks[1]

\* The input has the supported shape that carries the identifier c: the raw
\* identifier, a watch URL of YouTube with v = c, a short link, an embed path.
CarriesId(u, c) ==
    /\ u.token = c
    /\ \/ u.shape = "raw"
       \/ u.shape \in {"watch", "embed"} /\ u.host = "www.youtube.com"
       \/ u.shape = "short" /\ u.host = "youtu.be"

\* The input has one of the supported shapes, whatever its token is; the
\* /v/ path of the docstring counts as one.
HasSupportedShape(u) ==
    \/ u.shape = "raw" /\ u.token \in CanonicalIds
    \/ u.shape \in {"watch", "embed", "v"} /\ u.host = "www.youtube.com"
          /\ u.token # None
    \/ u.shape = "short" /\ u.host = "youtu.be"

\* C20: every supported shape that carries an identifier yields that
\* identifier, and an input of no supported shape yields None.
C20_NormalizerShapes ==
    call.fn = "extract_video_id"
    => /\ \A c \in CanonicalIds : CarriesId(call.arg, c) => call.ret = c
       /\ ~HasSupportedShape(call.arg) => call.ret = None

\* C15: quota_used is 0 when the client is built, and no operation of the
\* client lowers it.
QuotaStep ==
    \A p \in Sessions :
        /\ (pc[p] = "idle" /\ pc'[p] = "client") => quota_used'[p] = 0
        /\ (pc[p] = "client" /\ pc'[p] = "client")
           => quota_used'[p] >= quota_used[p]

C15_QuotaMonotonic == [][QuotaStep]_vars

C15_Witness ==
    \E p \in Sessions :
        /\ pc[p] = "client"
        /\ calls[p] = <<"captions.download", "metadata", "captions.list">>
        /\ quota_used[p] = 251

\* The quota units of a remote call (youtube_client.py:5-7).
Cost(name) ==
    CASE name = "metadata" -> 1
      [] name = "captions.list" -> 50
      [] name = "captions.download" -> 200
      [] OTHER -> 0

RECURSIVE WeightedCount(_)
WeightedCount(names) ==
    IF names = <<>> THEN 0 ELSE Cost(Head(names)) + WeightedCount(Tail(names))

\* C16: quota_used equals the weighted count of the remote calls the client
\* has issued, whatever their outcomes were.
C16_QuotaCountsEveryCall ==
    \A p \in Sessions :
        pc[p] = "client" => quota_used[p] = WeightedCount(calls[p])

\* C21: whatever extract_video_id returns other than None is a canonical
\* identifier: 11 characters of [a-zA-Z0-9_-].
C21_ResultIsCanonical ==
    (call.fn = "extract_video_id" /\ call.ret # None)
    => IsVideoIdToken(call.ret)

\* The number written before the unit letter in a duration string, 0 when
\* the letter does not occur.
Component(s, unit) ==
    IF \E i \in 2..Len(s) : s[i] = unit
    THEN IntOf(s[(CHOOSE i \in 2..Len(s) : s[i] = unit) - 1])
    ELSE 0

StartsWithPT(s) == Len(s) >= 2 /\ s[1] = "P" /\ s[2] = "T"

\* C22: for PT[nH][nM][nS] parse_iso_duration returns
\* hours * 3600 + minutes * 60 + seconds, whichever components are present,
\* and for a string that does not start with PT it returns 0.
C22_IsoDuration ==
    call.fn = "parse_iso_duration"
    => IF StartsWithPT(call.arg)
       THEN call.ret = Component(call.arg, "H") * 3600
                        + Component(call.arg, "M") * 60
                        + Component(call.arg, "S")
       ELSE call.ret = 0

C22_Witness ==
    /\ call.fn = "parse_iso_duration"
    /\ call.arg = <<"P", "T", "1", "H", "2", "M", "10", "S">>
    /\ call.ret = 3730

RECURSIVE SpokenText(_, _)
\* The spoken lines of the cues from the i-th on, in their order.
SpokenText(cues, i) ==
    IF i > Len(cues) THEN <<>> ELSE cues[i] \o SpokenText(cues, i + 1)

IsNotBlank(line) == line # ""

\* C23: the lines of the result of srt_to_plain_text, blank lines aside, are
\* the spoken lines of the input, verbatim and in order: no sequence number
\* and no timing line is left, and no spoken line is lost, a spoken line of
\* digits included.
C23_SrtKeepsSpokenLines ==
    call.fn = "srt_to_plain_text"
    => SelectSeq(call.ret, IsNotBlank) = SpokenText(call.arg.cues, 1)

\* The last n elements of a sequence.
Suffix(s, n) == SubSeq(s, Len(s) - n + 1, Len(s))

\* C24: a transcript longer than max_length is submitted as its first
\* max_length characters followed by the truncation marker: the submitted
\* text is max_length plus the length of the marker long and ends with the
\* marker; a transcript of at most max_length characters is submitted as it
\* is.
C24_Truncation ==
    call.fn = "code_transcript"
    => LET text == call.arg.transcript_text
           sent == call.ret.submitted
       IN  IF Len(text) > max_length
           THEN /\ Len(sent) = max_length + Len(TruncationMarker)
                /\ SubSeq(sent, 1, max_length) = SubSeq(text, 1, max_length)
                /\ Suffix(sent, Len(TruncationMarker)) = TruncationMarker
           ELSE sent = text

C24_Witness ==
    /\ call.fn = "code_transcript"
    /\ Len(call.arg.transcript_text) = max_length + 5
    /\ Len(call.ret.submitted) = max_length + 13

\* C25: code_transcript returns a payload of the schema or raises; it does
\* not return without a payload.
C25_PayloadOrRaise ==
    call.fn = "code_transcript"
    => \/ call.ret.outcome = "raise"
       \/ call.ret.outcome = "return" /\ call.ret.coding_result = "MotifCoding"

\* What delete_video(id) that returned ret has done to the store.
DeleteVideoEffect(id, ret) ==
    LET owned == {v.id : v \in {x \in videos : x.video_id = id}} IN
    IF owned # {}
    THEN /\ ret = Returns(TRUE)
         /\ videos' = {v \in videos : v.video_id # id}
         /\ transcripts' = {t \in transcripts : t.video_id \notin owned}
         /\ motif_codings' = {m \in motif_codings : m.video_id \notin owned}
    ELSE /\ ret = Returns(FALSE)
         /\ UNCHANGED store

\* C26: delete_video of a stored id removes the video, its transcripts and
\* its motif codings, leaves every record of the other videos as it was and
\* returns True; delete_video of an id that is not stored returns False and
\* changes nothing.
C26_DeleteVideo ==
    [][call'.fn = "delete_video" => DeleteVideoEffect(call'.arg, call'.ret)]_vars

\* A deletion has returned True and the records of another video, its
\* transcript and motif coding among them, are still there.
C26_Witness ==
    /\ call.fn = "delete_video"
    /\ call.ret = Returns(TRUE)
    /\ \E v \in videos : TranscriptsOf(v.id) # {} /\ MotifCodingsOf(v.id) # {}

\* A deletion of an id that is not stored has returned False.
C26_WitnessUnknown ==
    call.fn = "delete_video" /\ call.ret = Returns(FALSE) /\ videos # {}

\* C27: when create_transcript returns, the transcript is stored and its
\* video has has_captions true and status completed; when it raises, neither
\* the transcript nor the change of the video is stored.
C27_CreateTranscriptAtomic ==
    [][call'.fn = "create_transcript" =>
        IF ~call'.ret.raised
        THEN /\ \E t \in transcripts' :
                    t.id = call'.ret.value /\ t.video_id = call'.arg
             /\ \A v \in videos' :
                    v.id = call'.arg => v.has_captions /\ v.status = "completed"
        ELSE transcripts' = transcripts /\ videos' = videos]_vars

\* create_video of a run whose video_id has been stored since the run looked
\* for it: the store stays as it is and the run returns a failure.
DuplicateCreateStep ==
    \A p \in Sessions :
        (/\ pc[p] = "create"
         /\ pc'[p] # "create"
         /\ \E v \in videos : v.video_id = video_id[p])
        => /\ UNCHANGED store
           /\ pc'[p] = "ret"
           /\ terminal'[p] = "raised:create"
           /\ ~result'[p].success
           /\ result'[p].error # None

\* A run that create_video has ended has fetched no captions, called no
\* extraction and stored no transcript.
DuplicateCreateOutcome ==
    \A p \in Sessions :
        (Returned(p) /\ terminal[p] = "raised:create")
        => /\ ~result[p].success
           /\ ~Issued(p, "captions")
           /\ ~Issued(p, "extraction")
           /\ transcript[p] = NoRow
           /\ video[p] = NoRow

\* C28: create_video with a video_id that is stored already raises and
\* leaves the store as it is; process_video_url then returns a failure and
\* creates no transcript and no motif coding.
C28_DuplicateCreate ==
    /\ []DuplicateCreateOutcome
    /\ [][DuplicateCreateStep]_vars

C28_Witness ==
    \E p \in Sessions :
        /\ Returned(p)
        /\ terminal[p] = "raised:create"
        /\ result[p] = Failure(UniqueViolationMessage)
        /\ \E v \in videos : v.video_id = video_id[p]

\* C29: a submission is not abandoned when the credential provider fails:
\* no script run is stopped at the creation of the client, so that the
\* captions of the submitted videos are still fetched without credentials.
C29_NotAbandoned ==
    \A p \in Sessions : terminal[p] \notin {"stopped:single", "stopped:batch"}

\* The remote steps of a run in the order of process_video_url.
RemoteSteps == <<"metadata", "captions", "extraction">>

\* The remote steps a run has issued are the first ones of RemoteSteps, each
\* one once.
IssuedInOrder ==
    \A p \in Sessions :
        /\ Len(calls[p]) <= Len(RemoteSteps)
        /\ calls[p] = SubSeq(RemoteSteps, 1, Len(calls[p]))

\* A run that a remote step has failed has returned without another step.
NoRetry ==
    \A p \in Sessions :
        /\ terminal[p] \in {"raised:metadata", "metadata_failed"}
            => calls[p] = <<"metadata">>
        /\ terminal[p] = "caption_failed" => calls[p] = <<"metadata", "captions">>
        /\ (terminal[p] = "raised:coding" /\ Issued(p, "extraction"))
            => calls[p] = RemoteSteps

\* The captions are fetched when the video of the run is stored, and the
\* extraction is called when the transcript of the run is stored.
IssuedAfterStored ==
    \A p \in Sessions :
        /\ (~Issued(p, "captions") /\ Issued(p, "captions")')
            => \E v \in videos : v.id = video[p] /\ v.video_id = video_id[p]
        /\ (~Issued(p, "extraction") /\ Issued(p, "extraction")')
            => \E t \in transcripts :
                    t.id = transcript[p] /\ t.video_id = video[p]

\* C30: in one run of process_video_url each remote step is issued at most
\* once and in the order metadata, captions, extraction; the captions are
\* fetched only after the video is stored and the extraction is called only
\* after the transcript is stored; a step that failed is not issued again.
C30_RemoteStepsOnceInOrder ==
    /\ []IssuedInOrder
    /\ []NoRetry
    /\ [][IssuedAfterStored]_vars

C30_Witness ==
    \E p \in Sessions :
        /\ Returned(p)
        /\ terminal[p] = "raised:coding"
        /\ calls[p] = RemoteSteps

\* The whitespace-separated tokens of a text: the characters that are not
\* whitespace and begin the text or follow whitespace.
TokenStarts(text) ==
    {i \in 1..Len(text) :
        text[i] \notin {" ", "\n"} /\ (i > 1 => text[i - 1] \in {" ", "\n"})}

\* The result shape both caption strategies promise.
UniformResult(r) ==
    /\ r.success <=> r.error = None
    /\ r.success => /\ r.has_transcript
                    /\ r.word_count = Cardinality(TokenStarts(r.transcript))
    /\ ~r.success => /\ ~r.has_transcript
                     /\ r.transcript = <<>>
                     /\ r.word_count = 0

\* C31: the result of either caption strategy has success true exactly when
\* error is None; on success the transcript is there and word_count is the
\* number of its whitespace-separated tokens, on failure the transcript is
\* None and word_count is 0.
C31_UniformResult ==
    /\ call.fn = "get_video_captions" => UniformResult(call.ret)
    /\ (call.fn = "YouTubeClient.get_video_captions" /\ ~call.ret.raised)
        => UniformResult(call.ret.value)

C31_Witness ==
    /\ call.fn = "YouTubeClient.get_video_captions"
    /\ ~call.ret.raised
    /\ call.ret.value.success
    /\ call.ret.value.word_count = 2

\* A transcript that is still stored after a step is the row it was.
TranscriptsImmutable ==
    \A t \in transcripts :
        (\E u \in transcripts' : u.id = t.id) => t \in transcripts'

\* C32: after any sequence of submissions every VideoRecord owns at most one
\* TranscriptRecord, and no step of the pipeline changes a TranscriptRecord
\* that is stored.
C32_OneImmutableTranscript ==
    /\ [](\A v \in videos : Cardinality(TranscriptsOf(v.id)) <= 1)
    /\ [][TranscriptsImmutable]_vars

\* Two videos own a transcript each, of different languages.
C32_Witness ==
    \E v, w \in videos :
        /\ v.id # w.id
        /\ \E t \in TranscriptsOf(v.id), u \in TranscriptsOf(w.id) :
                t.language # u.language

\* C33: when runs for the same identifier overlap, at most one VideoRecord
\* of the identifier is stored; the run whose create_video comes second
\* leaves the store as it is, reports a failure and stores no transcript and
\* no motif coding.
C33_OverlappingRuns ==
    /\ [](\A v, w \in videos : v.video_id = w.video_id => v = w)
    /\ []DuplicateCreateOutcome
    /\ [][DuplicateCreateStep]_vars

\* Two runs for the same identifier have both passed the look-up; one has
\* created the video and the other one has returned from create_video.
C33_Witness ==
    \E p, q \in Sessions :
        /\ p # q
        /\ video_id[p] = video_id[q]
        /\ Returned(p)
        /\ terminal[p] = "raised:create"
        /\ Issued(p, "metadata")
        /\ Issued(q, "metadata")
        /\ video[q] # NoRow
        /\ \E v \in videos : v.id = video[q] /\ v.video_id = video_id[p]

\* C34: the VideoRecord a run has stored carries the duration in seconds
\* that get_video_metadata returned to the run.
C34_StoredDuration ==
    \A p \in Sessions :
        \A v \in videos :
            (video[p] # NoRow /\ v.id = video[p] /\ metadata[p] # NoMetadata)
            => v.duration = metadata[p].duration

\* C35: a run of process_video_url adds at most 1 to quota_used of its
\* client: the remote calls it issues are the metadata fetch, the caption
\* fetch without credentials and the extraction, never captions.list (50) or
\* captions.download (200).
C35_RunQuotaAtMostOne ==
    /\ [](\A p \in Sessions :
            /\ quota_used[p] <= 1
            /\ \A i \in 1..Len(calls[p]) :
                    calls[p][i] \in {"metadata", "captions", "extraction"})
    /\ [][\A p \in Sessions :
            /\ quota_used'[p] <= quota_used[p] + 1
            /\ quota_used'[p] > quota_used[p]
                => /\ pc[p] = "metadata"
                   /\ calls'[p] = Append(calls[p], "metadata")]_vars

C35_Witness ==
    \E p \in Sessions :
        /\ Returned(p)
        /\ terminal[p] = "success"
        /\ quota_used[p] = 1
        /\ Issued(p, "captions")

Stored(id) == \E v \in videos : v.video_id = id

\* After delete_video has returned True no video of the identifier is
\* stored.
DeletedIsGone ==
    (/\ \A q \in Sessions : pc[q] = "idle" /\ pc'[q] = "idle"
     /\ call'.fn = "delete_video"
     /\ call'.ret = Returns(TRUE))
    => /\ Stored(call'.arg)
       /\ \A v \in videos' : v.video_id # call'.arg

\* The look-up of lines 32-34 rejects a submission exactly when a video of
\* the identifier is stored, whatever its status, and then nothing changes;
\* otherwise the run goes on to the metadata fetch.
RejectedIffStored ==
    \A p \in Sessions :
        (pc[p] = "check" /\ pc'[p] # "check")
        => IF Stored(video_id[p])
           THEN /\ terminal'[p] = "exists"
                /\ result'[p] = Failure("Video already in database")
                /\ UNCHANGED store
           ELSE pc'[p] = "metadata"

\* create_video of a run whose identifier is not stored adds a fresh
\* VideoRecord in status processing and nothing else.
FreshRecord ==
    \A p \in Sessions :
        (pc[p] = "create" /\ pc'[p] # "create" /\ ~Stored(video_id[p]))
        => /\ pc'[p] = "captions"
           /\ \E v \in videos' :
                /\ v \notin videos
                /\ v.id = video'[p]
                /\ v.video_id = video_id[p]
                /\ v.status = "processing"
                /\ videos' = videos \cup {v}

\* C36: after delete_video(id) has returned True a submission of the same
\* identifier is not rejected as existing and creates a fresh VideoRecord;
\* as long as a video, one in status no_captions included, is stored, a
\* submission of its identifier is rejected.
C36_ResubmitAfterDelete ==
    /\ [][DeletedIsGone]_vars
    /\ [][RejectedIffStored]_vars
    /\ [][FreshRecord]_vars

\* The video of an identifier was deleted, delete_video returned True, and a
\* later submission of the identifier has gone through the whole pipeline.
C36_Witness ==
    \E p \in Sessions :
        /\ call.fn = "delete_video"
        /\ call.ret = Returns(TRUE)
        /\ video_id[p] = call.arg
        /\ Returned(p)
        /\ terminal[p] = "success"
        /\ \E v \in videos : v.id = video[p] /\ v.video_id = call.arg

\* A submission of a video that is stored in status no_captions was rejected.
C36_WitnessNoCaptions ==
    \E p \in Sessions :
        /\ Returned(p)
        /\ terminal[p] = "exists"
        /\ \E v \in videos : v.video_id = video_id[p] /\ v.status = "no_captions"

\* The rows of the identifiers other than id: their videos, and the
\* transcripts and motif codings those videos own.
OtherVideos(vs, id) == {v \in vs : v.video_id # id}

OtherTranscripts(vs, ts, id) ==
    {t \in ts : \E v \in OtherVideos(vs, id) : v.id = t.video_id}

OtherCodings(vs, ms, id) ==
    {m \in ms : \E v \in OtherVideos(vs, id) : v.id = m.video_id}

\* A step of the run of session p changes no row of another identifier.
FrameEffect ==
    \A p \in Sessions :
        pc'[p] # pc[p] =>
            LET A == video_id'[p] IN
            /\ OtherVideos(videos', A) = OtherVideos(videos, A)
            /\ OtherTranscripts(videos', transcripts', A)
                 = OtherTranscripts(videos, transcripts, A)
            /\ OtherCodings(videos', motif_codings', A)
                 = OtherCodings(videos, motif_codings, A)

\* C37: a process_video_url run for identifier A leaves every video,
\* transcript and motif coding of every other identifier as it was.
C37_FrameEffect == [][FrameEffect]_vars

\* get_database_stats: the counts of database.py:206-211 over the tables.
get_database_stats ==
    [total_videos |-> Cardinality(videos),
     completed |-> Cardinality({v \in videos : v.status = "completed"}),
     processing |-> Cardinality({v \in videos : v.status = "processing"}),
     failed |-> Cardinality({v \in videos : v.status = "failed"}),
     with_captions |-> Cardinality({v \in videos : v.has_captions}),
     with_ai_coding |-> Cardinality(motif_codings)]

\* The videos that own a transcript, and those in status no_captions.
OwningTranscript == {v \in videos : \E t \in transcripts : t.video_id = v.id}

NoCaptions == {v \in videos : v.status = "no_captions"}

\* C38: after any sequence of submissions and delete_video calls the
\* statistics satisfy completed = with_captions = the number of videos owning
\* a transcript, with_ai_coding <= completed, and total_videos = completed +
\* processing + failed + the number of videos in status no_captions.
C38_Statistics ==
    LET stats == get_database_stats IN
    /\ stats.completed = stats.with_captions
    /\ stats.completed = Cardinality(OwningTranscript)
    /\ stats.with_ai_coding <= stats.completed
    /\ stats.total_videos = stats.completed + stats.processing + stats.failed
                              + Cardinality(NoCaptions)

\* After a deletion and further submissions the table holds a completed
\* video with its extraction and a video without captions.
C38_Witness ==
    /\ \A p \in Sessions : pc[p] = "idle"
    /\ call.fn = "delete_video"
    /\ call.ret = Returns(TRUE)
    /\ get_database_stats.completed = 1
    /\ get_database_stats.with_ai_coding = 1
    /\ Cardinality(NoCaptions) = 1

====
